---- MODULE Spec2Model ----
(***************************************************************************)
(* A model of redis_dict.core.RedisDict: dictionary instances (clients)    *)
(* that talk to one Redis server.  Text (keys, stored values) is a         *)
(* sequence of one-character strings, so that the type-tagged envelope     *)
(* "<type>:<payload>" and its parse at the first colon are computed.       *)
(* A Python value is a pair <<type name, payload>>.  The server keeps for  *)
(* every key the stored text and the absolute time at which it expires.    *)
(***************************************************************************)
EXTENDS Integers, Sequences, FiniteSets, TLC

\* ------------------------------------------------------------------ bounds
MaxTime == 2        \* the clock stops at MaxTime
MaxExpire == 2      \* configured expire values are 1..MaxExpire seconds
MaxDepth == 2       \* nesting depth of pipeline() / expire_at() scopes
MaxBuf == 2         \* commands queued in one pipeline

\* --------------------------------------------------------------- state
VARIABLES
  store,                \* the server: key -> [val: stored text, exp: deadline]
  now,                  \* the server's clock, in seconds
  expire,               \* self.expire of every instance
  preserve_expiration,  \* self.preserve_expiration of every instance
  redis,                \* self.redis: the "live" handle or a "pipeline"
  temp_redis,           \* self._temp_redis: "None" or the saved "live" handle
  buffer,               \* the command stack of the instance's pipeline
  scopes,               \* the context managers an instance is inside of
  pc,                   \* where an instance is inside a handler
  pending,              \* the locals of the handler an instance is inside of
  lastOp,               \* the last finished dictionary call and its outcome
  namespace_of,         \* self.namespace of every instance
  zsets,                \* the server's sorted sets: key -> members by score
  encoding_registry,    \* RedisDict.encoding_registry: added type name -> encoder
  decoding_registry     \* RedisDict.decoding_registry: added type name -> decoder

vars == <<store, now, expire, preserve_expiration, redis, temp_redis, buffer,
          scopes, pc, pending, lastOp, namespace_of, zsets, encoding_registry, decoding_registry>>

\* ------------------------------------------------------------ Python values
PyNone == <<"NoneType", 0>>
PyStr(s) == <<"str", s>>
PyInt(i) == <<"int", i>>
PyBool(b) == <<"bool", b>>
PyTuple(items) == <<"tuple", items>>
PyList(items) == <<"list", items>>
\* datetime.timedelta(milliseconds=ms)
PyTimedelta(ms) == <<"timedelta", ms>>

\* the default of pop(): "no default supplied"
SENTINEL == <<"SENTINEL", 0>>

\* the outcome of a call that raised KeyError(arg)
KeyError(arg) == <<"KeyError", arg>>

\* the outcome of a call that raised ValueError
ValueError == <<"ValueError", 0>>

\* ---------------------------------------------------------------- text
Text(str) ==
  CASE str = "str" -> <<"s", "t", "r">>
    [] str = "int" -> <<"i", "n", "t">>
    [] str = "bool" -> <<"b", "o", "o", "l">>
    [] str = "NoneType" -> <<"N", "o", "n", "e", "T", "y", "p", "e">>
    [] str = "True" -> <<"T", "r", "u", "e">>
    [] str = "False" -> <<"F", "a", "l", "s", "e">>
    [] str = "None" -> <<"N", "o", "n", "e">>
    [] str = "main" -> <<"m", "a", "i", "n">>
    [] str = "tuple" -> <<"t", "u", "p", "l", "e">>
    [] str = "list" -> <<"l", "i", "s", "t">>
    [] OTHER -> <<str>>

Digit(d) ==
  CASE d = 0 -> "0" [] d = 1 -> "1" [] d = 2 -> "2" [] d = 3 -> "3"
    [] d = 4 -> "4" [] d = 5 -> "5" [] d = 6 -> "6" [] d = 7 -> "7"
    [] d = 8 -> "8" [] d = 9 -> "9"

DigitValue(ch) ==
  CASE ch = "0" -> 0 [] ch = "1" -> 1 [] ch = "2" -> 2 [] ch = "3" -> 3
    [] ch = "4" -> 4 [] ch = "5" -> 5 [] ch = "6" -> 6 [] ch = "7" -> 7
    [] ch = "8" -> 8 [] ch = "9" -> 9

\* str(n) of a non-negative int
RECURSIVE NatToText(_)
NatToText(n) ==
  IF n < 10 THEN <<Digit(n)>> ELSE NatToText(n \div 10) \o <<Digit(n % 10)>>

\* str(i) of an int
IntToText(i) == IF i < 0 THEN <<"-">> \o NatToText(0 - i) ELSE NatToText(i)

RECURSIVE TextToNat(_)
TextToNat(s) ==
  IF Len(s) = 0 THEN 0
  ELSE TextToNat(SubSeq(s, 1, Len(s) - 1)) * 10 + DigitValue(s[Len(s)])

\* int(s) of a decimal text
TextToInt(s) ==
  IF Len(s) > 0 /\ s[1] = "-" THEN 0 - TextToNat(Tail(s)) ELSE TextToNat(s)

\* the position of the first colon of s, 0 when s has none
RECURSIVE FirstColon(_, _)
FirstColon(s, i) ==
  IF i > Len(s) THEN 0 ELSE IF s[i] = ":" THEN i ELSE FirstColon(s, i + 1)

\* ---------------------------------------------------------------- JSON
\* json.dumps of an int, a list or a tuple: both sequences are written as an
\* array, its items separated by ", "
RECURSIVE JsonDumps(_)
JsonItemsText(items, i) ==
  (IF i = 1 THEN <<>> ELSE <<",", " ">>) \o JsonDumps(items[i])

RECURSIVE JsonJoin(_, _)
JsonJoin(items, i) ==
  IF i > Len(items) THEN <<>>
  ELSE JsonItemsText(items, i) \o JsonJoin(items, i + 1)

JsonDumps(value) ==
  IF value[1] = "int" THEN IntToText(value[2])
  ELSE <<"[">> \o JsonJoin(value[2], 1) \o <<"]">>

\* the position after the number that starts at position i of s
RECURSIVE NumberEnd(_, _)
NumberEnd(s, i) ==
  IF i <= Len(s) /\ s[i] \notin {",", "]", " "} THEN NumberEnd(s, i + 1) ELSE i

\* json.loads of the value that starts at position i of s: the value and the
\* position after it; an array becomes a list
RECURSIVE JsonValue(_, _)
RECURSIVE JsonArray(_, _, _)
JsonValue(s, i) ==
  IF s[i] = "["
    THEN IF s[i + 1] = "]" THEN <<PyList(<<>>), i + 2>>
         ELSE JsonArray(s, i + 1, <<>>)
  ELSE <<PyInt(TextToInt(SubSeq(s, i, NumberEnd(s, i) - 1))), NumberEnd(s, i)>>

JsonArray(s, i, items) ==
  LET item == JsonValue(s, i) IN
    IF s[item[2]] = "]" THEN <<PyList(Append(items, item[1])), item[2] + 1>>
    ELSE JsonArray(s, item[2] + 2, Append(items, item[1]))

JsonLoads(s) == JsonValue(s, 1)[1]

\* ------------------------------------------------------------ added types
\* the classes handed to extends_type: the name of each and whether it has
\* a callable encode method and a callable decode class method
Classes ==
  {[name |-> "Person", has_encode |-> TRUE, has_decode |-> TRUE],
   [name |-> "EncodeOnly", has_encode |-> TRUE, has_decode |-> FALSE],
   [name |-> "DecodeOnly", has_encode |-> FALSE, has_decode |-> TRUE]}

ClassNames == {class_type.name : class_type \in Classes}

\* an instance of class name with one field
PyObject(name, field) == <<name, field>>

\* is s the decimal text of a non-negative int
IsNumber(s) ==
  /\ Len(s) > 0
  /\ \A i \in 1..Len(s) :
       s[i] \in {"0", "1", "2", "3", "4", "5", "6", "7", "8", "9"}

\* the encoders of the registry: two functions handed to extends_type, which
\* write the field and the field after "#", and _create_default_encode, which
\* calls the encode method of the object, which writes the field after "m"
ApplyEncoder(encode, value) ==
  CASE encode = "encode1" -> NatToText(value[2])
    [] encode = "encode2" -> <<"#">> \o NatToText(value[2])
    [] encode = "method" -> <<"m">> \o NatToText(value[2])

\* the decoders of the registry: the inverses of the encoders; int() of a
\* text that is no number raises ValueError
ApplyDecoder(decode, name, text) ==
  LET mark == CASE decode = "decode1" -> <<>>
                [] decode = "decode2" -> <<"#">>
                [] decode = "method" -> <<"m">>
      digits == SubSeq(text, Len(mark) + 1, Len(text))
  IN IF SubSeq(text, 1, Len(mark)) = mark /\ IsNumber(digits)
       THEN PyObject(name, TextToNat(digits))
     ELSE ValueError

\* an encoder looked up in a mapping of the instance's own, which no
\* extends_type of another instance has filled
EncodeOwnRegistry(value) ==
  CASE value[1] = "str" -> value[2]
    [] value[1] = "int" -> IntToText(value[2])
    [] value[1] = "bool" -> IF value[2] THEN Text("True") ELSE Text("False")
    [] value[1] = "NoneType" -> Text("None")
    [] value[1] = "tuple" -> JsonDumps(PyList(value[2]))
    [] value[1] = "list" -> JsonDumps(value)
    [] value[1] \in ClassNames -> <<"<object>">>

\* ------------------------------------------------------------- the codec
\* encoding_registry.get(store_type, lambda x: x)(value), then formatted by
\* the f-string of _format_value: str, int, bool and NoneType have no
\* registered encoder, the f-string writes str(value); a tuple is written by
\* json.dumps(list(val)), a list by encode_json, an object of an added type
\* by its encoder, and an object of a type never added by its str()
Encode(value) ==
  CASE value[1] = "str" -> value[2]
    [] value[1] = "int" -> IntToText(value[2])
    [] value[1] = "bool" -> IF value[2] THEN Text("True") ELSE Text("False")
    [] value[1] = "NoneType" -> Text("None")
    [] value[1] = "tuple" -> JsonDumps(PyList(value[2]))
    [] value[1] = "list" -> JsonDumps(value)
    [] value[1] \in ClassNames ->
         IF value[1] \in DOMAIN encoding_registry
           THEN ApplyEncoder(encoding_registry[value[1]], value)
         ELSE <<"<object>">>

\* decoding_registry.get(type_, _default_decoder)(value)
Decode(type_, value) ==
  IF Len(type_) = 1 /\ type_[1] \in ClassNames
       /\ type_[1] \in DOMAIN decoding_registry
    THEN ApplyDecoder(decoding_registry[type_[1]], type_[1], value)
  ELSE IF type_ = Text("str") THEN PyStr(value)
  ELSE IF type_ = Text("int") THEN PyInt(TextToInt(value))
  ELSE IF type_ = Text("bool") THEN PyBool(value = Text("True"))
  ELSE IF type_ = Text("NoneType") THEN PyNone
  ELSE IF type_ = Text("tuple") THEN PyTuple(JsonLoads(value)[2])
  ELSE IF type_ = Text("list") THEN JsonLoads(value)
  ELSE PyStr(value)

\* self._max_string_size, configured small
max_string_size == 4

\* RedisDict._valid_input: only a value of type str is measured
ValidInput(val, val_type) ==
  IF val_type = "str" THEN Len(val) < max_string_size ELSE TRUE

\* the test of _format_value: "not self._valid_input(value, store_type) or
\* not self._valid_input(key, 'str')" raises ValueError
ValidWrite(key, value) ==
  ValidInput(value[2], value[1]) /\ ValidInput(key, "str")

\* RedisDict._format_value: f'{store_type}:{encoded_value}'
FormatValue(value) == Text(value[1]) \o <<":">> \o Encode(value)

\* the position of the last colon of s, 0 when s has none
RECURSIVE LastColon(_, _)
LastColon(s, i) ==
  IF i = 0 THEN 0 ELSE IF s[i] = ":" THEN i ELSE LastColon(s, i - 1)

\* _transform that splits at the last colon: result.rsplit(':', 1)
TransformLastColon(result) ==
  LET i == LastColon(result, Len(result)) IN
    IF i = 0 THEN ValueError
    ELSE Decode(SubSeq(result, 1, i - 1), SubSeq(result, i + 1, Len(result)))

\* RedisDict._transform: result.split(':', 1), then decode; a text without
\* colon cannot be unpacked into (type_, value) and raises ValueError
Transform(result) ==
  LET i == FirstColon(result, 1) IN
    IF i = 0 THEN ValueError
    ELSE Decode(SubSeq(result, 1, i - 1), SubSeq(result, i + 1, Len(result)))

\* RedisDict.namespace, the default
namespace == Text("main")

\* RedisDict._format_key: f'{self.namespace}:{str(key)}'
FormatKey(key) == namespace \o <<":">> \o key

\* --------------------------------------------------------- domains
Clients == {1, 2}

\* logical keys
Keys == {<<"a">>, <<"b">>}

\* values given to the dictionary
Values == {PyStr(<<"u", ":", "v">>), PyInt(10)}

\* values of the expire option: None or whole seconds
ExpireValues == {PyNone} \cup {PyInt(n) : n \in 1..MaxExpire}

\* ------------------------------------------------------------- the server
\* a key without expiry (TTL replies -1)
NoExpire == -1

EmptyStore == [x \in {} |-> 0]

\* st with key k bound to entry e
Put(st, k, e) == [x \in (DOMAIN st) \cup {k} |-> IF x = k THEN e ELSE st[x]]

\* st without key k
Remove(st, k) == [x \in (DOMAIN st) \ {k} |-> st[x]]

\* the entries of st that have not expired at time t
Unexpired(st, t) ==
  [x \in {k \in DOMAIN st : st[k].exp = NoExpire \/ st[k].exp > t} |-> st[x]]

\* the options of SET: EX seconds, KEEPTTL, or none
OptEX(seconds) == <<"EX", seconds>>
OptKEEPTTL == <<"KEEPTTL", 0>>
OptNone == <<"", 0>>

\* the server refuses EX with less than one second: "invalid expire time"
InvalidExpire(opt) == opt[1] = "EX" /\ opt[2] < 1

\* the outcome of a call that raised the server's error reply
ResponseError == <<"ResponseError", 0>>

\* SET key value [EX seconds | KEEPTTL] at time t
RedisSet(st, t, k, v, opt) ==
  LET exp == IF opt[1] = "EX" THEN t + opt[2]
             ELSE IF opt[1] = "KEEPTTL" /\ k \in DOMAIN st THEN st[k].exp
             ELSE NoExpire
  IN IF InvalidExpire(opt) THEN st ELSE Put(st, k, [val |-> v, exp |-> exp])

\* SET key value GET [...] sent without NX: the key is written in any case
RedisSetAlways(st, t, k, v, opt) == RedisSet(st, t, k, v, opt)

\* SET key value NX GET [...]: writes only when the key is absent
RedisSetNX(st, t, k, v, opt) ==
  IF k \in DOMAIN st THEN st ELSE RedisSet(st, t, k, v, opt)

\* DEL key; GETDEL key removes the key as well
RedisDel(st, k) == Remove(st, k)

\* TTL key
RedisTtl(st, t, k) ==
  IF k \notin DOMAIN st THEN -2
  ELSE IF st[k].exp = NoExpire THEN -1 ELSE st[k].exp - t

\* a queued command of a pipeline
CmdSet(k, v, opt) == [op |-> "SET", key |-> k, val |-> v, opt |-> opt]
CmdDel(k) == [op |-> "DEL", key |-> k, val |-> <<>>, opt |-> OptNone]
CmdExists(k) == [op |-> "EXISTS", key |-> k, val |-> <<>>, opt |-> OptNone]

\* a pipeline whose execute() sends nothing
ExecuteNothing(st, t, cmds) == st

\* Pipeline.execute(): the queued commands run in order, as one batch
RECURSIVE Execute(_, _, _)
Execute(st, t, cmds) ==
  IF Len(cmds) = 0 THEN st
  ELSE LET cmd == Head(cmds)
           st1 == IF cmd.op = "SET"
                    THEN RedisSet(st, t, cmd.key, cmd.val, cmd.opt)
                  ELSE IF cmd.op = "DEL" THEN RedisDel(st, cmd.key)
                  ELSE st
       IN Execute(st1, t, Tail(cmds))

\* ------------------------------------------------------- sorted sets
\* a sorted set is kept as the sequence of its members by ascending score;
\* every ZADD of the model carries a later time.time() than all before it
SeqWithout(seq, member) == SelectSeq(seq, LAMBDA x : x # member)

\* the members of sorted set name, by ascending score
ZMembers(zs, name) == IF name \in DOMAIN zs THEN zs[name] ELSE <<>>

\* ZADD name {member: time.time()}: a new member, or a new score for an
\* old one
ZAdd(zs, name, member) ==
  [x \in (DOMAIN zs) \cup {name} |->
     IF x = name THEN Append(SeqWithout(ZMembers(zs, name), member), member)
     ELSE zs[x]]

\* ZREM name member; the server drops a sorted set that becomes empty
ZRem(zs, name, member) ==
  LET rest == SeqWithout(ZMembers(zs, name), member) IN
    [x \in {y \in DOMAIN zs : y # name \/ rest # <<>>} |->
       IF x = name THEN rest ELSE zs[x]]

\* ZCARD name
ZCard(zs, name) == Len(ZMembers(zs, name))

\* ZRANGE name -1 -1: the member with the highest score, if any
ZRangeLast(zs, name) ==
  IF ZCard(zs, name) = 0 THEN <<>>
  ELSE <<ZMembers(zs, name)[ZCard(zs, name)]>>

\* the server keeps a sorted set as a listpack while it has at most
\* zset-max-listpack-entries members of at most zset-max-listpack-value bytes
zset_max_listpack_entries == 128
zset_max_listpack_value == 64

IsListpack(members) ==
  /\ Len(members) <= zset_max_listpack_entries
  /\ \A i \in 1..Len(members) : Len(members[i]) <= zset_max_listpack_value

\* the sequences that hold every element of members once
Arrangements(members) ==
  {f \in [1..Len(members) -> {members[i] : i \in 1..Len(members)}] :
     \A i, j \in 1..Len(members) : f[i] = f[j] => i = j}

\* a full ZSCAN walk of sorted set name: a listpack is returned whole, in
\* score order; otherwise the walk follows the hash table of the members,
\* an order that has nothing to do with the scores
ZScanReplies(zs, name) ==
  IF IsListpack(ZMembers(zs, name)) THEN {ZMembers(zs, name)}
  ELSE Arrangements(ZMembers(zs, name))

\* queued sorted-set commands of a pipeline
CmdZadd(name, member) ==
  [op |-> "ZADD", key |-> name, val |-> member, opt |-> OptNone]
CmdZrem(name, member) ==
  [op |-> "ZREM", key |-> name, val |-> member, opt |-> OptNone]
CmdZrange(name) == [op |-> "ZRANGE", key |-> name, val |-> <<>>, opt |-> OptNone]

\* Pipeline.execute(), what it does to the sorted sets
RECURSIVE ExecuteZsets(_, _)
ExecuteZsets(zs, cmds) ==
  IF Len(cmds) = 0 THEN zs
  ELSE LET cmd == Head(cmds)
           zs1 == IF cmd.op = "ZADD" THEN ZAdd(zs, cmd.key, cmd.val)
                  ELSE IF cmd.op = "ZREM" THEN ZRem(zs, cmd.key, cmd.val)
                  ELSE IF cmd.op = "DEL" THEN Remove(zs, cmd.key)
                  ELSE zs
       IN ExecuteZsets(zs1, Tail(cmds))

\* does key k start with the text prefix
StartsWith(k, prefix) ==
  Len(k) >= Len(prefix) /\ SubSeq(k, 1, Len(prefix)) = prefix

\* RedisDict._scan_keys: scan_iter(match='<namespace>:<search_term>*')
ScanKeys(st, search_term) ==
  {k \in DOMAIN st : StartsWith(k, namespace \o <<":">> \o search_term)}

\* ------------------------------------------------------ outcomes of calls
\* the registries hold no added type
NoRegistry == [x \in {} |-> 0]

NoPending == [op |-> "", key |-> <<>>, value |-> PyNone, exists |-> FALSE]

\* a finished call: its name and arguments, what it returned or raised, the
\* server's content when it was issued and whether it went to a pipeline
Outcome(op, key, arg, result, old, queued) ==
  [op |-> op, key |-> key, arg |-> arg, result |-> result, old |-> old,
   queued |-> queued]

NoOp == Outcome("", <<>>, PyNone, PyNone, EmptyStore, FALSE)

PipelineFrame(top_level) ==
  [kind |-> "pipeline", top_level |-> top_level, temp |-> PyNone,
   sec_epoch |-> PyNone]

ExpireFrame(temp, sec_epoch) ==
  [kind |-> "expire_at", top_level |-> FALSE, temp |-> temp,
   sec_epoch |-> sec_epoch]

Top(stack) == stack[Len(stack)]
Pop1(stack) == SubSeq(stack, 1, Len(stack) - 1)

\* RedisDict.__init__: the options of every instance are chosen freely
Init ==
  /\ store = EmptyStore
  /\ now = 0
  /\ expire \in [Clients -> ExpireValues]
  /\ preserve_expiration \in [Clients -> BOOLEAN]
  /\ redis = [c \in Clients |-> "live"]
  /\ temp_redis = [c \in Clients |-> "None"]
  /\ buffer = [c \in Clients |-> <<>>]
  /\ scopes = [c \in Clients |-> <<>>]
  /\ pc = [c \in Clients |-> "idle"]
  /\ pending = [c \in Clients |-> NoPending]
  /\ lastOp = [c \in Clients |-> NoOp]
  /\ namespace_of = [c \in Clients |-> namespace]
  /\ zsets = EmptyStore
  /\ encoding_registry = NoRegistry
  /\ decoding_registry = NoRegistry

\* -------------------------------------------------------------- writes
\* redis.set(formatted_key, formatted_value, keepttl=True) whatever expire is
StoreOptionKeepTTL(exp) == OptKEEPTTL

\* int(self.expire.total_seconds()) of a timedelta, the number itself of an
\* int
WholeSeconds(exp) == IF exp[1] = "timedelta" THEN exp[2] \div 1000 ELSE exp[2]

\* redis.set(formatted_key, formatted_value, ex=self.expire): the client
\* sends the whole seconds of a timedelta
StoreOption(exp) ==
  IF exp = PyNone THEN OptNone ELSE OptEX(WholeSeconds(exp))

\* what the client library sends for an option: the option, and for ex=0
\* either EX 0 or, testing "if ex", no expiry at all
RedisPySet(opt) == IF InvalidExpire(opt) THEN {opt, OptNone} ELSE {opt}

\* what redis.set(...) returns or raises for the option sent
SetResult(sent) == IF InvalidExpire(sent) THEN ResponseError ELSE PyNone

\* RedisDict.__setitem__ / _store.  _format_value raises ValueError for a
\* str value or a key of max_string_size characters or more, before any
\* command.  With preserve_expiration on the live
\* handle the EXISTS probe is a round trip of its own and the SET follows in
\* StoreSet.  On a pipeline, exists() queues EXISTS and returns the pipeline
\* object, which is true, so SET .. KEEPTTL is queued.
Setitem(c, key, value) ==
  LET formatted_key == FormatKey(key)
      formatted_value == FormatValue(value)
  IN /\ pc[c] = "idle"
     /\ IF ~ValidWrite(key, value)
          THEN /\ lastOp' = [lastOp EXCEPT ![c] =
                    Outcome("setitem", key, value, ValueError, store, FALSE)]
               /\ UNCHANGED <<store, buffer, pc, pending>>
        ELSE IF preserve_expiration[c] /\ redis[c] = "live"
          THEN /\ pc' = [pc EXCEPT ![c] = "store_set"]
               /\ pending' = [pending EXCEPT ![c] =
                    [op |-> "setitem", key |-> key, value |-> value,
                     exists |-> formatted_key \in DOMAIN store]]
               /\ UNCHANGED <<store, buffer, lastOp>>
        ELSE IF preserve_expiration[c]
          THEN /\ Len(buffer[c]) + 2 <= MaxBuf
               /\ buffer' = [buffer EXCEPT ![c] = @ \o
                    <<CmdExists(formatted_key),
                      CmdSet(formatted_key, formatted_value, OptKEEPTTL)>>]
               /\ lastOp' = [lastOp EXCEPT ![c] =
                    Outcome("setitem", key, value, PyNone, store, TRUE)]
               /\ UNCHANGED <<store, pc, pending>>
        ELSE IF redis[c] = "live"
          THEN /\ \E sent \in RedisPySet(StoreOption(expire[c])) :
                    /\ store' = RedisSet(store, now, formatted_key,
                                         formatted_value, sent)
                    /\ lastOp' = [lastOp EXCEPT ![c] =
                         Outcome("setitem", key, value, SetResult(sent),
                                 store, FALSE)]
               /\ UNCHANGED <<buffer, pc, pending>>
        ELSE /\ Len(buffer[c]) + 1 <= MaxBuf
             /\ buffer' = [buffer EXCEPT ![c] = Append(@,
                  CmdSet(formatted_key, formatted_value,
                         StoreOption(expire[c])))]
             /\ lastOp' = [lastOp EXCEPT ![c] =
                  Outcome("setitem", key, value, PyNone, store, TRUE)]
             /\ UNCHANGED <<store, pc, pending>>
     /\ UNCHANGED <<now, expire, preserve_expiration, redis, temp_redis,
                    scopes,
                    namespace_of, zsets, encoding_registry, decoding_registry>>

\* _store that ignores the probe and always takes the else branch
PreserveOptionNever(exists, exp) == StoreOption(exp)

\* _store that ignores the probe and always takes the keepttl branch
PreserveOptionAlways(exists, exp) == OptKEEPTTL

\* the branch of _store under preserve_expiration: keepttl=True when the
\* probe found the key, ex=self.expire otherwise
PreserveOption(exists, exp) ==
  IF exists THEN OptKEEPTTL ELSE StoreOption(exp)

\* _store after the probe: the SET round trip
StoreSet(c) ==
  LET formatted_key == FormatKey(pending[c].key)
      formatted_value == FormatValue(pending[c].value)
      opt == PreserveOption(pending[c].exists, expire[c])
  IN /\ pc[c] = "store_set"
     /\ \E sent \in RedisPySet(opt) :
          /\ store' = RedisSet(store, now, formatted_key, formatted_value,
                               sent)
          /\ lastOp' = [lastOp EXCEPT ![c] =
               Outcome("setitem", pending[c].key, pending[c].value,
                       SetResult(sent), store, FALSE)]
     /\ pc' = [pc EXCEPT ![c] = "idle"]
     /\ pending' = [pending EXCEPT ![c] = NoPending]
     /\ UNCHANGED <<now, expire, preserve_expiration, redis, temp_redis,
                    buffer, scopes,
                    namespace_of, zsets, encoding_registry, decoding_registry>>

\* RedisDict.__delitem__: self.redis.delete(formatted_key)
Delitem(c, key) ==
  /\ pc[c] = "idle"
  /\ IF redis[c] = "live"
       THEN /\ store' = RedisDel(store, FormatKey(key))
            /\ UNCHANGED buffer
     ELSE /\ Len(buffer[c]) + 1 <= MaxBuf
          /\ buffer' = [buffer EXCEPT ![c] = Append(@, CmdDel(FormatKey(key)))]
          /\ UNCHANGED store
  /\ lastOp' = [lastOp EXCEPT ![c] =
       Outcome("delitem", key, PyNone, PyNone, EmptyStore, redis[c] # "live")]
  /\ UNCHANGED <<now, expire, preserve_expiration, redis, temp_redis, scopes,
                 pc, pending,
                 namespace_of, zsets, encoding_registry, decoding_registry>>

\* --------------------------------------------------------------- reads
\* a reply of the server: <<>> is nil, <<text>> a stored text
Reply(st, k) == IF k \in DOMAIN st THEN <<st[k].val>> ELSE <<>>

\* RedisDict._load: get_redis.get(formatted_key), (found, value)
Load(st, key) ==
  LET result == Reply(st, FormatKey(key)) IN
    IF result = <<>> THEN <<FALSE, PyNone>>
    ELSE <<TRUE, Transform(result[1])>>

\* RedisDict.__getitem__
GetitemResult(st, key) ==
  IF Load(st, key)[1] THEN Load(st, key)[2] ELSE KeyError(key)

\* get that answers None for a missing key whatever default was given
GetResultNone(st, key, default) ==
  IF Load(st, key)[1] THEN Load(st, key)[2] ELSE PyNone

\* RedisDict.get
GetResult(st, key, default) ==
  IF Load(st, key)[1] THEN Load(st, key)[2] ELSE default

\* RedisDict.__contains__: self._load(key)[0], so a ValueError of _transform
\* reaches the caller
ContainsResult(st, key) ==
  IF Load(st, key)[2] = ValueError THEN ValueError
  ELSE PyBool(Load(st, key)[1])

\* RedisDict.__len__: len(list(self._scan_keys()))
LenResult(st) == PyInt(Cardinality(ScanKeys(st, <<>>)))

\* a read leaves everything but the caller's outcome as it is
Finish(c, outcome) ==
  /\ pc[c] = "idle"
  /\ lastOp' = [lastOp EXCEPT ![c] = outcome]
  /\ UNCHANGED <<store, now, expire, preserve_expiration, redis, temp_redis,
                 buffer, scopes, pc, pending,
                 namespace_of, zsets, encoding_registry, decoding_registry>>

Getitem(c, key) ==
  Finish(c, Outcome("getitem", key, PyNone, GetitemResult(store, key),
                    EmptyStore, FALSE))

Get(c, key) ==
  Finish(c, Outcome("get", key, PyNone, GetResult(store, key, PyNone),
                    EmptyStore, FALSE))

Contains(c, key) ==
  Finish(c, Outcome("contains", key, PyNone, ContainsResult(store, key),
                    EmptyStore, FALSE))

DunderLen(c) ==
  Finish(c, Outcome("len", <<>>, PyNone, LenResult(store), EmptyStore, FALSE))

\* ----------------------------------------------------- compound operations
\* GET key sent in place of GETDEL: the key stays
RedisGetOnly(st, k) == st

\* GETDEL key: the store afterwards
RedisGetDel(st, k) == Remove(st, k)

\* RedisDict.pop after the GETDEL reply
PopReturn(value, formatted_key, default) ==
  IF value = <<>>
    THEN IF default # SENTINEL THEN default ELSE KeyError(formatted_key)
  ELSE Transform(value[1])

\* RedisDict.pop: one GETDEL on get_redis, the live handle also inside a
\* pipeline scope
DoPop(c, key, default) ==
  LET formatted_key == FormatKey(key)
      value == Reply(store, formatted_key)
  IN /\ store' = RedisGetDel(store, formatted_key)
     /\ lastOp' = [lastOp EXCEPT ![c] =
          Outcome("pop", key, default,
                  PopReturn(value, formatted_key, default), store, FALSE)]
     /\ UNCHANGED <<now, expire, preserve_expiration, redis, temp_redis,
                    buffer, scopes,
                    namespace_of, zsets, encoding_registry, decoding_registry>>

Pop(c, key, default) ==
  /\ pc[c] = "idle"
  /\ DoPop(c, key, default)
  /\ UNCHANGED <<pc, pending>>

\* the expiry arguments RedisDict.setdefault appends to SET .. NX GET
SetGetOption(pe, exp) ==
  IF pe THEN OptKEEPTTL
  ELSE IF exp # PyNone
    THEN OptEX(IF WholeSeconds(exp) <= 1 THEN 1 ELSE WholeSeconds(exp))
  ELSE OptNone

\* setdefault that hands back its argument whatever the server replied
SetdefaultReturnArgument(result, default_value) == default_value

\* RedisDict.setdefault after the reply of SET .. NX GET
SetdefaultReturn(result, default_value) ==
  IF result = <<>> THEN default_value ELSE Transform(result[1])

\* RedisDict.setdefault: one SET .. NX GET on get_redis
DoSetdefault(c, key, default_value) ==
  LET formatted_key == FormatKey(key)
      formatted_value == FormatValue(default_value)
      result == Reply(store, formatted_key)
  IN /\ IF ~ValidWrite(key, default_value)
          THEN /\ UNCHANGED store
               /\ lastOp' = [lastOp EXCEPT ![c] =
                    Outcome("setdefault", key, default_value, ValueError,
                            store, FALSE)]
        ELSE /\ store' = RedisSetNX(store, now, formatted_key, formatted_value,
                             SetGetOption(preserve_expiration[c], expire[c]))
             /\ lastOp' = [lastOp EXCEPT ![c] =
                  Outcome("setdefault", key, default_value,
                          SetdefaultReturn(result, default_value), store,
                          FALSE)]
     /\ UNCHANGED <<now, expire, preserve_expiration, redis, temp_redis,
                    buffer, scopes,
                    namespace_of, zsets, encoding_registry, decoding_registry>>

Setdefault(c, key, default_value) ==
  /\ pc[c] = "idle"
  /\ DoSetdefault(c, key, default_value)
  /\ UNCHANGED <<pc, pending>>

\* -------------------------------------------------------------- scopes
\* pipeline() that takes every scope for the outermost one
TopLevelAlways(temp) == TRUE

\* pipeline(): "if self._temp_redis is None"
TopLevel(temp) == temp = "None"

\* entering "with self.pipeline()": the outermost scope swaps self.redis for
\* a new pipeline and keeps the live handle in _temp_redis
EnterPipeline(c) ==
  LET top_level == TopLevel(temp_redis[c]) IN
    /\ pc[c] = "idle"
    /\ Len(scopes[c]) < MaxDepth
    /\ redis' = [redis EXCEPT ![c] = IF top_level THEN "pipeline" ELSE @]
    /\ temp_redis' = [temp_redis EXCEPT ![c] = IF top_level THEN redis[c] ELSE @]
    /\ buffer' = [buffer EXCEPT ![c] = IF top_level THEN <<>> ELSE @]
    /\ scopes' = [scopes EXCEPT ![c] = Append(@, PipelineFrame(top_level))]
    /\ UNCHANGED <<store, now, expire, preserve_expiration, pc, pending,
                   lastOp,
                   namespace_of, zsets, encoding_registry, decoding_registry>>

\* leaving "with self.pipeline()", at the end of the body or by an exception
\* of the body: the finally clause executes the pipeline when this scope is
\* the outermost one
ExitPipeline(c) ==
  LET top_level == Top(scopes[c]).top_level IN
    /\ pc[c] = "idle"
    /\ Len(scopes[c]) > 0
    /\ Top(scopes[c]).kind = "pipeline"
    /\ store' = IF top_level THEN Execute(store, now, buffer[c]) ELSE store
    /\ redis' = [redis EXCEPT ![c] = IF top_level THEN temp_redis[c] ELSE @]
    /\ temp_redis' = [temp_redis EXCEPT ![c] = IF top_level THEN "None" ELSE @]
    /\ buffer' = [buffer EXCEPT ![c] = IF top_level THEN <<>> ELSE @]
    /\ scopes' = [scopes EXCEPT ![c] = Pop1(@)]
    /\ zsets' = IF top_level THEN ExecuteZsets(zsets, buffer[c]) ELSE zsets
    /\ UNCHANGED <<now, expire, preserve_expiration, pc, pending, lastOp,
                   namespace_of, encoding_registry, decoding_registry>>

\* entering "with self.expire_at(sec_epoch)":
\* self.expire, temp = sec_epoch, self.expire
EnterExpireAt(c, sec_epoch) ==
  /\ pc[c] = "idle"
  /\ Len(scopes[c]) < MaxDepth
  /\ expire' = [expire EXCEPT ![c] = sec_epoch]
  /\ scopes' = [scopes EXCEPT ![c] = Append(@, ExpireFrame(expire[c], sec_epoch))]
  /\ UNCHANGED <<store, now, preserve_expiration, redis, temp_redis, buffer,
                 pc, pending, lastOp,
                 namespace_of, zsets, encoding_registry, decoding_registry>>

\* the body of expire_at ends: the generator resumes, self.expire = temp
ExitExpireAt(c) ==
  /\ pc[c] = "idle"
  /\ Len(scopes[c]) > 0
  /\ Top(scopes[c]).kind = "expire_at"
  /\ expire' = [expire EXCEPT ![c] = Top(scopes[c]).temp]
  /\ scopes' = [scopes EXCEPT ![c] = Pop1(@)]
  /\ UNCHANGED <<store, now, preserve_expiration, redis, temp_redis, buffer,
                 pc, pending, lastOp,
                 namespace_of, zsets, encoding_registry, decoding_registry>>

\* the body of expire_at raises: the exception is thrown into the generator
\* at its yield, which has no try/finally, so the assignment after the yield
\* is not run
RaiseExpireAt(c) ==
  /\ pc[c] = "idle"
  /\ Len(scopes[c]) > 0
  /\ Top(scopes[c]).kind = "expire_at"
  /\ scopes' = [scopes EXCEPT ![c] = Pop1(@)]
  /\ UNCHANGED <<store, now, expire, preserve_expiration, redis, temp_redis,
                 buffer, pc, pending, lastOp,
                 namespace_of, zsets, encoding_registry, decoding_registry>>

\* ---------------------------------------------------------------- time
\* a second passes; the server drops the keys whose deadline is reached
Tick ==
  /\ now < MaxTime
  /\ now' = now + 1
  /\ store' = Unexpired(store, now + 1)
  /\ UNCHANGED <<expire, preserve_expiration, redis, temp_redis, buffer,
                 scopes, pc, pending, lastOp,
                 namespace_of, zsets, encoding_registry, decoding_registry>>

\* the defaults given to pop()
PopDefaults == {SENTINEL, PyInt(10)}

\* ------------------------------------------------ expiry of item assignment
\* one instance assigns and deletes items while time passes; the other
\* instance stays as constructed
InitOne == Init /\ expire[2] = PyNone /\ ~preserve_expiration[2]

NextTTL ==
  \/ Tick
  \/ \E c \in {1} :
       \/ \E key \in Keys, value \in Values : Setitem(c, key, value)
       \/ StoreSet(c)
       \/ \E key \in Keys : Delitem(c, key)

SpecTTL == InitOne /\ [][NextTTL]_vars

\* ------------------------------------------------------- expire_at scopes
\* the same, inside and outside of expire_at() scopes
NextExpire ==
  \/ Tick
  \/ \E c \in {1} :
       \/ \E key \in Keys, value \in Values : Setitem(c, key, value)
       \/ StoreSet(c)
       \/ \E key \in Keys : Delitem(c, key)
       \/ \E n \in 1..MaxExpire : EnterExpireAt(c, PyInt(n))
       \/ ExitExpireAt(c)
       \/ RaiseExpireAt(c)

SpecExpire == InitOne /\ [][NextExpire]_vars

\* ------------------------------------------------------ pipeline scopes
\* one instance without expire works inside and outside of pipeline() scopes
InitPipe == InitOne /\ expire[1] = PyNone

NextPipe ==
  \E c \in {1} :
    \/ \E key \in Keys, value \in Values : Setitem(c, key, value)
    \/ StoreSet(c)
    \/ \E key \in Keys : Delitem(c, key)
    \/ \E key \in Keys : Getitem(c, key)
    \/ \E key \in Keys : Get(c, key)
    \/ \E key \in Keys : Contains(c, key)
    \/ DunderLen(c)
    \/ \E key \in Keys, default \in PopDefaults : Pop(c, key, default)
    \/ \E key \in Keys, value \in Values : Setdefault(c, key, value)
    \/ EnterPipeline(c)
    \/ ExitPipeline(c)

SpecPipe == InitPipe /\ [][NextPipe]_vars

\* ------------------------------------------------------ concurrent calls
\* the entries a store can hold at time 0: written with no expiry or with
\* the largest one
InitialEntries ==
  {<<>>} \cup {<<[val |-> FormatValue(v), exp |-> e]>> :
                 v \in Values, e \in {NoExpire, MaxExpire}}

\* the store that holds f[key] under every key with an entry
StoreOf(f) ==
  [x \in {FormatKey(key) : key \in {k \in Keys : f[k] # <<>>}} |->
     f[CHOOSE key \in Keys : FormatKey(key) = x][1]]

\* the calls of the two instances: setdefault(key, value), pop(key, value)
Calls ==
  {[op |-> "setdefault", key |-> k, value |-> v, exists |-> FALSE] :
     k \in Keys, v \in Values}
  \cup {[op |-> "pop", key |-> k, value |-> v, exists |-> FALSE] :
     k \in Keys, v \in PopDefaults}

\* two instances of any configuration, each about to make one call, on a
\* store of any content
InitRace ==
  /\ store \in {StoreOf(f) : f \in [Keys -> InitialEntries]}
  /\ now = 0
  /\ expire \in [Clients -> ExpireValues]
  /\ preserve_expiration \in [Clients -> BOOLEAN]
  /\ redis = [c \in Clients |-> "live"]
  /\ temp_redis = [c \in Clients |-> "None"]
  /\ buffer = [c \in Clients |-> <<>>]
  /\ scopes = [c \in Clients |-> <<>>]
  /\ pc = [c \in Clients |-> "call"]
  /\ pending \in [Clients -> Calls]
  /\ lastOp = [c \in Clients |-> NoOp]
  /\ namespace_of = [c \in Clients |-> namespace]
  /\ zsets = EmptyStore
  /\ encoding_registry = NoRegistry
  /\ decoding_registry = NoRegistry

CallSetdefault(c) ==
  /\ pc[c] = "call"
  /\ pending[c].op = "setdefault"
  /\ DoSetdefault(c, pending[c].key, pending[c].value)
  /\ pc' = [pc EXCEPT ![c] = "done"]
  /\ UNCHANGED pending

CallPop(c) ==
  /\ pc[c] = "call"
  /\ pending[c].op = "pop"
  /\ DoPop(c, pending[c].key, pending[c].value)
  /\ pc' = [pc EXCEPT ![c] = "done"]
  /\ UNCHANGED pending

NextRace == \E c \in Clients : CallSetdefault(c) \/ CallPop(c)

SpecRace == InitRace /\ [][NextRace]_vars

\* ------------------------------------------------------------ namespaces
\* RedisDict._format_key of an instance whose namespace is ns
FormatKeyIn(ns, key) == ns \o <<":">> \o key

\* RedisDict._scan_keys of such an instance: the keys the server matches
\* with '<ns>:<search_term>*'
ScanKeysIn(st, ns, search_term) ==
  {k \in DOMAIN st : StartsWith(k, ns \o <<":">> \o search_term)}

\* RedisDict.keys: item[to_rm:] with to_rm = len(self.namespace) + 1
StripNamespace(ns, item) == SubSeq(item, Len(ns) + 2, Len(item))

\* st without the keys of the set ks
RemoveAll(st, ks) == [x \in (DOMAIN st) \ ks |-> st[x]]

\* namespaces and logical keys, with and without a colon
Namespaces == {<<"n">>, <<"n", ":", "a">>, <<"m">>}
NsKeys == {<<"b">>, <<"a", ":", "b">>}
Prefixes == {<<>>, <<"a">>}

\* what a call of an instance with namespace ns returns on store st
NsResult(op, st, ns, key, arg) ==
  CASE op = "pop" ->
         PopReturn(Reply(st, FormatKeyIn(ns, key)), FormatKeyIn(ns, key), arg)
    [] op = "setdefault" ->
         SetdefaultReturn(Reply(st, FormatKeyIn(ns, key)), arg)
    [] op = "keys" ->
         <<"keys", {StripNamespace(ns, k) : k \in ScanKeysIn(st, ns, <<>>)}>>
    [] op = "len" -> PyInt(Cardinality(ScanKeysIn(st, ns, <<>>)))
    [] op = "contains" -> PyBool(FormatKeyIn(ns, key) \in DOMAIN st)
    [] op = "multi_get" ->
         <<"list", {Transform(st[k].val) : k \in ScanKeysIn(st, ns, key)}>>
    [] op = "multi_del" -> PyInt(Cardinality(ScanKeysIn(st, ns, key)))
    [] OTHER -> PyNone

\* what it leaves on the server
NsEffect(op, st, t, ns, key, arg) ==
  CASE op = "setitem" ->
         RedisSet(st, t, FormatKeyIn(ns, key), FormatValue(arg), OptNone)
    [] op = "delitem" -> RedisDel(st, FormatKeyIn(ns, key))
    [] op = "pop" -> RedisGetDel(st, FormatKeyIn(ns, key))
    [] op = "setdefault" ->
         RedisSetNX(st, t, FormatKeyIn(ns, key), FormatValue(arg), OptNone)
    [] op = "clear" ->
         RemoveAll(st, {FormatKeyIn(ns, StripNamespace(ns, k)) :
                          k \in ScanKeysIn(st, ns, <<>>)})
    [] op = "multi_del" -> RemoveAll(st, ScanKeysIn(st, ns, key))
    [] OTHER -> st

\* a call of instance c, which has neither expire nor preserve_expiration
\* and is in no pipeline scope
NsCall(c, op, key, arg) ==
  /\ pc[c] = "idle"
  /\ store' = NsEffect(op, store, now, namespace_of[c], key, arg)
  /\ lastOp' = [lastOp EXCEPT ![c] =
       Outcome(op, key, arg, NsResult(op, store, namespace_of[c], key, arg),
               EmptyStore, FALSE)]
  /\ UNCHANGED <<now, expire, preserve_expiration, redis, temp_redis, buffer,
                 scopes, pc, pending, namespace_of, zsets, encoding_registry, decoding_registry>>

\* every instance writes its own number, so that an entry shows which
\* instance wrote it
NsSetitem(c, key) == NsCall(c, "setitem", key, PyInt(c))
NsDelitem(c, key) == NsCall(c, "delitem", key, PyNone)
NsPop(c, key) == NsCall(c, "pop", key, SENTINEL)
NsSetdefault(c, key) == NsCall(c, "setdefault", key, PyInt(c))
NsClear(c) == NsCall(c, "clear", <<>>, PyNone)
NsKeysCall(c) == NsCall(c, "keys", <<>>, PyNone)
NsLen(c) == NsCall(c, "len", <<>>, PyNone)
NsContains(c, key) == NsCall(c, "contains", key, PyNone)
NsMultiGet(c, prefix) == NsCall(c, "multi_get", prefix, PyNone)
NsMultiDel(c, prefix) == NsCall(c, "multi_del", prefix, PyNone)

\* a step of instance c
NsStep(c) ==
  \/ \E key \in NsKeys : NsSetitem(c, key)
  \/ \E key \in NsKeys : NsDelitem(c, key)
  \/ \E key \in NsKeys : NsPop(c, key)
  \/ \E key \in NsKeys : NsSetdefault(c, key)
  \/ NsClear(c)
  \/ NsKeysCall(c)
  \/ NsLen(c)
  \/ \E key \in NsKeys : NsContains(c, key)
  \/ \E prefix \in Prefixes : NsMultiGet(c, prefix)
  \/ \E prefix \in Prefixes : NsMultiDel(c, prefix)

\* two instances with different namespaces on an empty server
InitNs ==
  /\ store = EmptyStore
  /\ now = 0
  /\ expire = [c \in Clients |-> PyNone]
  /\ preserve_expiration = [c \in Clients |-> FALSE]
  /\ redis = [c \in Clients |-> "live"]
  /\ temp_redis = [c \in Clients |-> "None"]
  /\ buffer = [c \in Clients |-> <<>>]
  /\ scopes = [c \in Clients |-> <<>>]
  /\ pc = [c \in Clients |-> "idle"]
  /\ pending = [c \in Clients |-> NoPending]
  /\ lastOp = [c \in Clients |-> NoOp]
  /\ namespace_of \in {f \in [Clients -> Namespaces] : f[1] # f[2]}
  /\ zsets = EmptyStore
  /\ encoding_registry = NoRegistry
  /\ decoding_registry = NoRegistry

\* instance 2 fills its namespace, instance 1 makes every call
NextNs ==
  \/ \E key \in NsKeys : NsSetitem(2, key)
  \/ NsStep(1)

SpecNs == InitNs /\ [][NextNs]_vars

\* ----------------------------------------------------- the ordered variant
\* PythonRedisDict.__init__: the key of the index, one sorted set for each
\* namespace; its fixed prefix is one symbol here
InsertionOrderKey(ns) == <<"redis-dict-insertion-order-">> \o ns

\* _parse_key: the logical key of a physical key
ParseKey(ns, formatted_key) == StripNamespace(ns, formatted_key)

\* _store_set: the SET of an item assignment, keepttl when the instance
\* preserves expiration and the key exists, ex=self.expire otherwise
StoreSetCommand(pe, exists, exp, formatted_key, formatted_value) ==
  CmdSet(formatted_key, formatted_value,
         IF pe /\ exists THEN OptKEEPTTL ELSE StoreOption(exp))

\* _create_set_get_command: the expiry arguments of SET .. NX GET
CreateSetGetCommand(pe, exp) == SetGetOption(pe, exp)

\* commands issued on self.redis: sent at once on the live handle, queued
\* on a pipeline
SelfRedis(c, cmds) ==
  IF redis[c] = "live"
    THEN /\ store' = Execute(store, now, cmds)
         /\ zsets' = ExecuteZsets(zsets, cmds)
         /\ UNCHANGED buffer
  ELSE /\ Len(buffer[c]) + Len(cmds) <= MaxBuf
       /\ buffer' = [buffer EXCEPT ![c] = @ \o cmds]
       /\ UNCHANGED <<store, zsets>>

\* the outcomes of calls that raised TypeError or AttributeError
TypeError == <<"TypeError", 0>>
AttributeError == <<"AttributeError", 0>>

\* what popitem() returns
Pair(key, value) == <<"pair", key, value>>

\* the variables the calls of the ordered variant leave alone
OrdUnchanged ==
  UNCHANGED <<now, expire, preserve_expiration, redis, temp_redis, scopes, pc,
              pending, namespace_of, encoding_registry, decoding_registry>>

\* PythonRedisDict._store: "with self.pipeline()" around the ZADD of the
\* index and the SET; inside an outer scope both are queued on its pipeline
OrdSetitem(c, key, value) ==
  LET formatted_key == FormatKey(key)
      formatted_value == FormatValue(value)
  IN /\ pc[c] = "idle"
     /\ SelfRedis(c, <<CmdZadd(InsertionOrderKey(namespace), formatted_key),
                       StoreSetCommand(preserve_expiration[c],
                                       formatted_key \in DOMAIN store,
                                       expire[c], formatted_key,
                                       formatted_value)>>)
     /\ lastOp' = [lastOp EXCEPT ![c] =
          Outcome("setitem", key, value, PyNone, EmptyStore, redis[c] # "live")]
     /\ OrdUnchanged

\* PythonRedisDict.__delitem__: "if not result: raise KeyError(key)", where
\* result is the reply of DEL on the live handle and the pipeline object,
\* which is true, on a pipeline
OrdDelitemResult(handle, st, key) ==
  IF handle = "live" /\ FormatKey(key) \notin DOMAIN st THEN KeyError(key)
  ELSE PyNone

\* PythonRedisDict.__delitem__: DEL, then ZREM of the index, then the test
OrdDelitem(c, key) ==
  LET formatted_key == FormatKey(key) IN
    /\ pc[c] = "idle"
    /\ SelfRedis(c, <<CmdDel(formatted_key),
                      CmdZrem(InsertionOrderKey(namespace), formatted_key)>>)
    /\ lastOp' = [lastOp EXCEPT ![c] =
         Outcome("delitem", key, PyNone, OrdDelitemResult(redis[c], store, key),
                 store, redis[c] # "live")]
    /\ OrdUnchanged

\* PythonRedisDict.setdefault: SET .. NX GET on get_redis, then the ZADD of
\* the index on self.redis, for a key that was there as well
OrdSetdefault(c, key, default_value) ==
  LET formatted_key == FormatKey(key)
      formatted_value == FormatValue(default_value)
      result == Reply(store, formatted_key)
      add == <<CmdZadd(InsertionOrderKey(namespace), formatted_key)>>
  IN /\ pc[c] = "idle"
     /\ store' = RedisSetNX(store, now, formatted_key, formatted_value,
                    CreateSetGetCommand(preserve_expiration[c], expire[c]))
     /\ IF redis[c] = "live"
          THEN /\ zsets' = ExecuteZsets(zsets, add)
               /\ UNCHANGED buffer
        ELSE /\ Len(buffer[c]) + 1 <= MaxBuf
             /\ buffer' = [buffer EXCEPT ![c] = @ \o add]
             /\ UNCHANGED zsets
     /\ lastOp' = [lastOp EXCEPT ![c] =
          Outcome("setdefault", key, default_value,
                  SetdefaultReturn(result, default_value), store, FALSE)]
     /\ OrdUnchanged

\* pop is not overridden: RedisDict.pop, one GETDEL and nothing else
OrdPop(c, key, default) == Pop(c, key, default)

\* PythonRedisDict.popitem after _insertion_order_latest and _pop replied
OrdPopitemReturn(latest, value) ==
  IF latest = <<>> THEN KeyError(Text("popitem(): dictionary is empty"))
  ELSE IF value = <<>> THEN AttributeError
  ELSE Pair(ParseKey(namespace, latest[1]), Transform(value[1]))

\* PythonRedisDict.popitem: ZRANGE -1 -1 on self.redis, then _pop, which is
\* ZREM on self.redis and GETDEL on get_redis.  On a pipeline ZRANGE is
\* queued and "result[0]" of the pipeline object raises TypeError
OrdPopitem(c) ==
  LET latest == ZRangeLast(zsets, InsertionOrderKey(namespace))
      value == IF latest = <<>> THEN <<>> ELSE Reply(store, latest[1])
  IN /\ pc[c] = "idle"
     /\ IF redis[c] = "live"
          THEN /\ zsets' = IF latest = <<>> THEN zsets
                           ELSE ZRem(zsets, InsertionOrderKey(namespace),
                                     latest[1])
               /\ store' = IF latest = <<>> THEN store
                           ELSE RedisGetDel(store, latest[1])
               /\ lastOp' = [lastOp EXCEPT ![c] =
                    Outcome("popitem", <<>>, PyNone,
                            OrdPopitemReturn(latest, value), store, FALSE)]
               /\ UNCHANGED buffer
        ELSE /\ Len(buffer[c]) + 1 <= MaxBuf
             /\ buffer' = [buffer EXCEPT ![c] =
                  Append(@, CmdZrange(InsertionOrderKey(namespace)))]
             /\ lastOp' = [lastOp EXCEPT ![c] =
                  Outcome("popitem", <<>>, PyNone, TypeError, store, TRUE)]
             /\ UNCHANGED <<store, zsets>>
     /\ OrdUnchanged

\* PythonRedisDict.__len__: ZCARD of the index on get_redis
OrdLenResult(zs) == PyInt(ZCard(zs, InsertionOrderKey(namespace)))

OrdLen(c) ==
  Finish(c, Outcome("len", <<>>, PyNone, OrdLenResult(zsets), EmptyStore,
                    FALSE))

\* RedisDict.keys over PythonRedisDict._scan_keys, a ZSCAN walk of the index
OrdKeysResult(reply) ==
  <<"keys", [i \in 1..Len(reply) |-> StripNamespace(namespace, reply[i])]>>

OrdKeys(c) ==
  \E reply \in ZScanReplies(zsets, InsertionOrderKey(namespace)) :
    Finish(c, Outcome("keys", <<>>, PyNone, OrdKeysResult(reply), EmptyStore,
                      FALSE))

\* PythonRedisDict.clear: in one pipeline scope, DEL of the index and DEL of
\* every key the walk of the index yields
OrdClear(c) ==
  \E reply \in ZScanReplies(zsets, InsertionOrderKey(namespace)) :
    /\ pc[c] = "idle"
    /\ SelfRedis(c, <<CmdDel(InsertionOrderKey(namespace))>> \o
                    [i \in 1..Len(reply) |-> CmdDel(reply[i])])
    /\ lastOp' = [lastOp EXCEPT ![c] =
         Outcome("clear", <<>>, PyNone, PyNone, EmptyStore, redis[c] # "live")]
    /\ OrdUnchanged

\* the commands of "self[key] = value" for every item of dic, in order
RECURSIVE UpdateCommands(_, _, _)
UpdateCommands(c, st, dic) ==
  IF Len(dic) = 0 THEN <<>>
  ELSE <<CmdZadd(InsertionOrderKey(namespace), FormatKey(Head(dic)[1])),
         StoreSetCommand(preserve_expiration[c],
                         FormatKey(Head(dic)[1]) \in DOMAIN st, expire[c],
                         FormatKey(Head(dic)[1]), FormatValue(Head(dic)[2]))>>
       \o UpdateCommands(c, st, Tail(dic))

\* RedisDict.update: the assignments of every item inside one pipeline scope
OrdUpdate(c, dic) ==
  /\ pc[c] = "idle"
  /\ SelfRedis(c, UpdateCommands(c, store, dic))
  /\ lastOp' = [lastOp EXCEPT ![c] =
       Outcome("update", <<>>, <<"items", dic>>, PyNone, EmptyStore,
               redis[c] # "live")]
  /\ OrdUnchanged

\* the arguments of update(): the items of a dictionary, in its order
Dicts ==
  {<<<<k, v>>>> : k \in Keys, v \in Values} \cup
  {dic \in {<<<<k1, v>>, <<k2, v>>>> : k1 \in Keys, k2 \in Keys, v \in Values} :
     dic[1][1] # dic[2][1]}

\* one instance of the ordered variant, no expiry, every call and the
\* pipeline scope
InitOrd ==
  /\ store = EmptyStore
  /\ now = 0
  /\ expire = [c \in Clients |-> PyNone]
  /\ preserve_expiration = [c \in Clients |-> FALSE]
  /\ redis = [c \in Clients |-> "live"]
  /\ temp_redis = [c \in Clients |-> "None"]
  /\ buffer = [c \in Clients |-> <<>>]
  /\ scopes = [c \in Clients |-> <<>>]
  /\ pc = [c \in Clients |-> "idle"]
  /\ pending = [c \in Clients |-> NoPending]
  /\ lastOp = [c \in Clients |-> NoOp]
  /\ namespace_of = [c \in Clients |-> namespace]
  /\ zsets = EmptyStore
  /\ encoding_registry = NoRegistry
  /\ decoding_registry = NoRegistry

NextOrd ==
  \/ \E key \in Keys, value \in Values : OrdSetitem(1, key, value)
  \/ \E key \in Keys : OrdDelitem(1, key)
  \/ \E key \in Keys, value \in Values : OrdSetdefault(1, key, value)
  \/ \E key \in Keys : OrdPop(1, key, SENTINEL)
  \/ OrdPopitem(1)
  \/ \E dic \in Dicts : OrdUpdate(1, dic)
  \/ OrdClear(1)
  \/ OrdLen(1)
  \/ EnterPipeline(1)
  \/ ExitPipeline(1)

SpecOrd == InitOrd /\ [][NextOrd]_vars

\* keys of the insertion-order runs: short ones, and one whose physical key
\* is longer than zset-max-listpack-value
LongKey == [i \in 1..60 |-> "k"]
OrderKeys == {<<"1">>, <<"2">>, <<"3">>, LongKey}

\* the value the k-th assignment of a run stores: its ordinal
Ordinal(st) == PyInt(Cardinality(DOMAIN st) + 1)

\* distinct keys are inserted one after the other, each with its ordinal as
\* value; keys() and popitem() are called in between
NextOrder ==
  \/ \E key \in OrderKeys :
       /\ FormatKey(key) \notin DOMAIN store
       /\ OrdSetitem(1, key, Ordinal(store))
  \/ OrdKeys(1)
  \/ OrdPopitem(1)

SpecOrder == InitOrd /\ [][NextOrder]_vars

\* ------------------------------------------------------- the whole mapping
\* the orders in which a scan may yield the keys of set ks
ScanOrders(ks) ==
  {f \in [1..Cardinality(ks) -> ks] :
     \A i, j \in 1..Cardinality(ks) : f[i] = f[j] => i = j}

\* one SCAN call from cursor 0 with count=1: the server may reply with no
\* key although keys match, it only bounds the work of one call
ScanOnce(st, search_term) ==
  {<<>>} \cup {<<k>> : k \in ScanKeysIn(st, namespace, search_term)}

\* RedisDict.key: the first key of the reply, None without one
KeyResult(reply) ==
  IF reply = <<>> THEN PyNone ELSE StripNamespace(namespace, reply[1])

\* RedisDict.popitem: key(), KeyError when it is None, else pop(key), which
\* is one GETDEL; a KeyError of pop starts over, which one reply of nil
\* with no other client around never causes
Popitem(c) ==
  \E reply \in ScanOnce(store, <<>>) :
    /\ pc[c] = "idle"
    /\ IF KeyResult(reply) = PyNone
         THEN /\ lastOp' = [lastOp EXCEPT ![c] =
                   Outcome("popitem", <<>>, PyNone,
                           KeyError(Text("popitem(): dictionary is empty")),
                           store, FALSE)]
              /\ UNCHANGED store
       ELSE /\ store' = RedisGetDel(store, FormatKey(KeyResult(reply)))
            /\ lastOp' = [lastOp EXCEPT ![c] =
                 Outcome("popitem", <<>>, PyNone,
                         Pair(KeyResult(reply),
                              PopReturn(Reply(store, FormatKey(KeyResult(reply))),
                                        FormatKey(KeyResult(reply)), SENTINEL)),
                         store, FALSE)]
    /\ UNCHANGED <<now, expire, preserve_expiration, redis, temp_redis, buffer,
                   scopes, pc, pending, namespace_of, zsets, encoding_registry, decoding_registry>>

\* RedisDict.get with a default
GetDefault(c, key, default) ==
  Finish(c, Outcome("get", key, default, GetResult(store, key, default),
                    EmptyStore, FALSE))

\* RedisDict.clear: in one pipeline scope, "del self[key]" for every key of
\* the scan
Clear(c) ==
  \E order \in ScanOrders(ScanKeys(store, <<>>)) :
    /\ pc[c] = "idle"
    /\ SelfRedis(c, [i \in 1..Len(order) |->
                       CmdDel(FormatKey(StripNamespace(namespace, order[i])))])
    /\ lastOp' = [lastOp EXCEPT ![c] =
         Outcome("clear", <<>>, PyNone, PyNone, store, redis[c] # "live")]
    /\ OrdUnchanged

\* update() raises when an item of dic fails the validation of _format_value
UpdateRaises(dic) == \E i \in 1..Len(dic) : ~ValidWrite(dic[i][1], dic[i][2])

\* a scope that drops its batch when its body raised
PipelineExcept(cmds, raised) == IF raised THEN <<>> ELSE cmds

\* the finally clause of pipeline(): the outermost scope executes what was
\* queued, whether its body raised or not
PipelineFinally(cmds, raised) == cmds

\* the commands "self[key] = value" queues for the items of dic, up to the
\* first item that fails validation: _store on a pipeline
RECURSIVE StoreCommands(_, _)
StoreCommands(c, dic) ==
  IF Len(dic) = 0 THEN <<>>
  ELSE IF ~ValidWrite(Head(dic)[1], Head(dic)[2]) THEN <<>>
  ELSE (IF preserve_expiration[c]
          THEN <<CmdExists(FormatKey(Head(dic)[1])),
                 CmdSet(FormatKey(Head(dic)[1]), FormatValue(Head(dic)[2]),
                        OptKEEPTTL)>>
        ELSE <<CmdSet(FormatKey(Head(dic)[1]), FormatValue(Head(dic)[2]),
                      StoreOption(expire[c]))>>)
       \o StoreCommands(c, Tail(dic))

\* RedisDict.update: the assignments of the items inside one pipeline scope;
\* a ValueError of an item ends the loop and leaves through the scope
Update(c, dic) ==
  /\ pc[c] = "idle"
  /\ SelfRedis(c, IF redis[c] = "live"
                    THEN PipelineFinally(StoreCommands(c, dic),
                                         UpdateRaises(dic))
                  ELSE StoreCommands(c, dic))
  /\ lastOp' = [lastOp EXCEPT ![c] =
       Outcome("update", <<>>, <<"items", dic>>,
               IF UpdateRaises(dic) THEN ValueError ELSE PyNone, store,
               redis[c] # "live")]
  /\ OrdUnchanged

\* RedisDict.to_dict: dict(self.items()), the value of every key of the scan
ToDictResult(st) ==
  IF \E k \in ScanKeys(st, <<>>) : Transform(st[k].val) = ValueError
    THEN ValueError
  ELSE
  <<"dict", [key \in {StripNamespace(namespace, k) : k \in ScanKeys(st, <<>>)}
               |-> GetitemResult(st, key)]>>

ToDict(c) ==
  Finish(c, Outcome("to_dict", <<>>, PyNone, ToDictResult(store), EmptyStore,
                    FALSE))

\* a key of another namespace
ForeignKey == <<"x", ":", "a">>

\* the server before the instance is made: empty, or with a key of another
\* namespace
InitDict ==
  /\ store \in {EmptyStore,
                Put(EmptyStore, ForeignKey,
                    [val |-> FormatValue(PyInt(10)), exp |-> NoExpire])}
  /\ now = 0
  /\ expire = [c \in Clients |-> PyNone]
  /\ preserve_expiration = [c \in Clients |-> FALSE]
  /\ redis = [c \in Clients |-> "live"]
  /\ temp_redis = [c \in Clients |-> "None"]
  /\ buffer = [c \in Clients |-> <<>>]
  /\ scopes = [c \in Clients |-> <<>>]
  /\ pc = [c \in Clients |-> "idle"]
  /\ pending = [c \in Clients |-> NoPending]
  /\ lastOp = [c \in Clients |-> NoOp]
  /\ namespace_of = [c \in Clients |-> namespace]
  /\ zsets = EmptyStore
  /\ encoding_registry = NoRegistry
  /\ decoding_registry = NoRegistry

\* the defaults handed to get() and pop()
Defaults == {PyNone, PyInt(10)}

\* one instance, no expiry, no pipeline scope: every call of the mapping
NextDict ==
  \/ \E key \in Keys, value \in Values : Setitem(1, key, value)
  \/ \E key \in Keys : Delitem(1, key)
  \/ \E key \in Keys : Getitem(1, key)
  \/ \E key \in Keys, default \in Defaults : GetDefault(1, key, default)
  \/ \E key \in Keys : Contains(1, key)
  \/ DunderLen(1)
  \/ \E key \in Keys, default \in Defaults \cup {SENTINEL} : Pop(1, key, default)
  \/ Popitem(1)
  \/ \E key \in Keys, value \in Values : Setdefault(1, key, value)
  \/ Clear(1)
  \/ \E dic \in Dicts : Update(1, dic)
  \/ ToDict(1)

SpecDict == InitDict /\ [][NextDict]_vars

\* ------------------------------------------------------------ typed values
\* values of the built-in types: texts with and without colon, ints, bools,
\* None, lists, and tuples, flat and nested
CodecValues ==
  {PyStr(<<>>), PyStr(<<"a">>), PyStr(<<"u", ":", "v">>),
   PyInt(-1), PyInt(0), PyInt(10), PyBool(TRUE), PyBool(FALSE), PyNone,
   PyList(<<>>), PyList(<<PyInt(1), PyInt(2)>>),
   PyTuple(<<>>), PyTuple(<<PyInt(1)>>), PyTuple(<<PyInt(1), PyInt(-2)>>),
   PyTuple(<<PyInt(1), PyTuple(<<PyInt(2), PyInt(3)>>)>>)}

\* values are assigned to the keys of one instance and read back
NextCodec ==
  \/ \E key \in Keys, value \in CodecValues : Setitem(1, key, value)
  \/ \E key \in Keys : Getitem(1, key)

SpecCodec == InitDict /\ [][NextCodec]_vars

\* ------------------------------------------------------- foreign entries
\* texts another program stored: without colon, empty, and with a colon
\* after a prefix that is no registered type name
ForeignTexts ==
  {<<"r", "a", "w">>, <<>>, <<"x", ":", "y">>, <<"x", ":", "y", ":", "z">>}

\* another program writes a text under a key of the namespace
ForeignSet(key, text) ==
  /\ store' = RedisSet(store, now, FormatKey(key), text, OptNone)
  /\ UNCHANGED <<now, expire, preserve_expiration, redis, temp_redis, buffer,
                 scopes, pc, pending, lastOp, namespace_of, zsets, encoding_registry, decoding_registry>>

\* one instance reads keys that another program writes
NextForeign ==
  \/ \E key \in Keys, text \in ForeignTexts : ForeignSet(key, text)
  \/ \E key \in Keys : Getitem(1, key)
  \/ \E key \in Keys, default \in Defaults : GetDefault(1, key, default)
  \/ \E key \in Keys : Contains(1, key)
  \/ \E key \in Keys, default \in Defaults \cup {SENTINEL} : Pop(1, key, default)
  \/ \E key \in Keys, value \in Values : Setdefault(1, key, value)

SpecForeign == InitDict /\ [][NextForeign]_vars

\* ---------------------------------------------------------- extends_type
\* the outcome of a call that raised NotImplementedError, and the method
\* its message names
NotImplementedError(method) == <<"NotImplementedError", method>>

\* a compliance check that every class passes
ComplianceAlways(class_type, method) == TRUE

\* RedisDict.new_type_compliance: hasattr(class_type, method) and
\* callable(getattr(class_type, method))
NewTypeCompliance(class_type, method) ==
  IF method = "encode" THEN class_type.has_encode ELSE class_type.has_decode

\* a registry that keeps the first codec of a name
RegisterIfNew(registry, type_name, codec) ==
  [x \in (DOMAIN registry) \cup {type_name} |->
     IF x \in DOMAIN registry THEN registry[x] ELSE codec]

\* self.decoding_registry[type_name] = decode, and the same for encode
Register(registry, type_name, codec) ==
  [x \in (DOMAIN registry) \cup {type_name} |->
     IF x = type_name THEN codec ELSE registry[x]]

\* RedisDict.extends_type up to its assignments: a codec that is not given
\* is checked, encode first, and NotImplementedError leaves the method
ExtendsTypeResult(class_type, encode, decode) ==
  IF encode = "None" /\ ~NewTypeCompliance(class_type, "encode")
    THEN NotImplementedError("encode")
  ELSE IF decode = "None" /\ ~NewTypeCompliance(class_type, "decode")
    THEN NotImplementedError("decode")
  ELSE PyNone

\* RedisDict.extends_type: a codec that is not given becomes the method of
\* the class, then both mappings are assigned.  The outcome keeps the encode
\* mapping the call found
ExtendsType(c, class_type, encode, decode) ==
  /\ pc[c] = "idle"
  /\ IF ExtendsTypeResult(class_type, encode, decode) = PyNone
       THEN /\ decoding_registry' =
                 Register(decoding_registry, class_type.name,
                          IF decode = "None" THEN "method" ELSE decode)
            /\ encoding_registry' =
                 Register(encoding_registry, class_type.name,
                          IF encode = "None" THEN "method" ELSE encode)
     ELSE UNCHANGED <<encoding_registry, decoding_registry>>
  /\ lastOp' = [lastOp EXCEPT ![c] =
       Outcome("extends_type", <<class_type.name>>, <<"codecs", encode, decode>>,
               ExtendsTypeResult(class_type, encode, decode),
               encoding_registry, FALSE)]
  /\ UNCHANGED <<store, now, expire, preserve_expiration, redis, temp_redis,
                 buffer, scopes, pc, pending, namespace_of, zsets>>

\* the codecs handed to extends_type
Encoders == {"None", "encode1", "encode2"}
Decoders == {"None", "decode1", "decode2"}

\* types are added and added again while objects are written and read
InitTypes == InitDict /\ store = EmptyStore

NextTypes ==
  \/ \E class_type \in Classes, encode \in Encoders, decode \in Decoders :
       ExtendsType(1, class_type, encode, decode)
  \/ Setitem(1, <<"a">>, PyObject("Person", 7))
  \/ Getitem(1, <<"a">>)

SpecTypes == InitTypes /\ [][NextTypes]_vars

\* ------------------------------------------------------------ size limits
\* keys and values around the size limit: a short and a long key, a short and
\* a long text, and a list and an int whose encoded text is longer than the
\* limit
SizeKeys == Keys \cup {<<"k", "k", "k", "k", "k">>}
SizeValues ==
  {PyStr(<<"u", ":", "v">>), PyStr(<<"v", "v", "v", "v", "v">>),
   PyList(<<PyInt(1), PyInt(2)>>), PyInt(12345)}

NextSize ==
  \/ \E key \in SizeKeys, value \in SizeValues : Setitem(1, key, value)
  \/ \E key \in SizeKeys, value \in SizeValues : Setdefault(1, key, value)
  \/ \E key \in SizeKeys : Getitem(1, key)

SpecSize == InitTypes /\ [][NextSize]_vars

\* ------------------------------------------- ordered variant: multi_* calls
\* RedisDict.multi_del, the method PythonRedisDict overrides: delete every
\* entry whose key starts with the given text
MultiDelInherited(c, key) ==
  /\ pc[c] = "idle"
  /\ store' = [k \in DOMAIN store \ ScanKeys(store, key) |-> store[k]]
  /\ lastOp' = [lastOp EXCEPT ![c] =
       Outcome("multi_del", key, PyNone,
               PyInt(Cardinality(ScanKeys(store, key))), store, FALSE)]
  /\ UNCHANGED <<buffer, zsets>>
  /\ OrdUnchanged

\* raise NotImplementedError("Not part of PythonRedisDict")
NotPartOfPythonRedisDict == NotImplementedError("Not part of PythonRedisDict")

\* PythonRedisDict.multi_get
OrdMultiGet(c, key) ==
  Finish(c, Outcome("multi_get", key, PyNone, NotPartOfPythonRedisDict, store,
                    FALSE))

\* PythonRedisDict.multi_chain_get
OrdMultiChainGet(c, keys) ==
  Finish(c, Outcome("multi_chain_get", <<>>, keys, NotPartOfPythonRedisDict,
                    store, FALSE))

\* PythonRedisDict.multi_dict
OrdMultiDict(c, key) ==
  Finish(c, Outcome("multi_dict", key, PyNone, NotPartOfPythonRedisDict, store,
                    FALSE))

\* PythonRedisDict.multi_del
OrdMultiDel(c, key) ==
  Finish(c, Outcome("multi_del", key, PyNone, NotPartOfPythonRedisDict, store,
                    FALSE))

\* arguments of the multi_* calls: a key, the empty text, a list of keys
MultiKeys == Keys \cup {<<>>}
MultiChains == {PyList(<<PyStr(k1), PyStr(k2)>>) : k1, k2 \in Keys}

NextMulti ==
  \/ \E key \in Keys, value \in Values : OrdSetitem(1, key, value)
  \/ \E key \in Keys : OrdDelitem(1, key)
  \/ \E key \in MultiKeys : OrdMultiGet(1, key)
  \/ \E keys \in MultiChains : OrdMultiChainGet(1, keys)
  \/ \E key \in MultiKeys : OrdMultiDict(1, key)
  \/ \E key \in MultiKeys : OrdMultiDel(1, key)
  \/ EnterPipeline(1)
  \/ ExitPipeline(1)

SpecMulti == InitOrd /\ [][NextMulti]_vars

\* --------------------------------------------------------- a failing flush
\* the outcome of a call that raised an error of the store client
RedisError == <<"RedisError", 0>>

\* what a failed execute() can have done to the store: nothing, or the whole
\* batch with the error reported afterwards
ExecuteFailed(st, t, cmds) == {st, Execute(st, t, cmds)}

\* leaving the outermost "with self.pipeline()" when self.redis.execute()
\* raises: the right-hand side of the assignment in the finally clause is
\* evaluated first, so neither self.redis nor self._temp_redis is assigned and
\* the error goes to the caller; the pipeline object has dropped its commands
ExitPipelineFails(c) ==
  /\ pc[c] = "idle"
  /\ Len(scopes[c]) > 0
  /\ Top(scopes[c]).kind = "pipeline"
  /\ Top(scopes[c]).top_level
  /\ store' \in ExecuteFailed(store, now, buffer[c])
  /\ buffer' = [buffer EXCEPT ![c] = <<>>]
  /\ scopes' = [scopes EXCEPT ![c] = Pop1(@)]
  /\ lastOp' = [lastOp EXCEPT ![c] =
       Outcome("pipeline", <<>>, PyNone, RedisError, store, FALSE)]
  /\ UNCHANGED <<redis, temp_redis, now, expire, preserve_expiration, pc,
                 pending, namespace_of, zsets, encoding_registry, decoding_registry>>

NextFlush ==
  \/ \E key \in Keys, value \in Values : Setitem(1, key, value)
  \/ \E key \in Keys : Delitem(1, key)
  \/ \E key \in Keys : Getitem(1, key)
  \/ EnterPipeline(1)
  \/ ExitPipeline(1)
  \/ ExitPipelineFails(1)

SpecFlush == InitTypes /\ [][NextFlush]_vars

\* ----------------------------------------------- every write inside a scope
NextDefer ==
  \/ \E key \in Keys, value \in Values : Setitem(1, key, value)
  \/ \E key \in Keys : Delitem(1, key)
  \/ \E dic \in Dicts : Update(1, dic)
  \/ Clear(1)
  \/ \E key \in Keys, default \in PopDefaults : Pop(1, key, default)
  \/ \E key \in Keys, value \in Values : Setdefault(1, key, value)
  \/ EnterPipeline(1)
  \/ ExitPipeline(1)

SpecDefer == InitTypes /\ [][NextDefer]_vars

\* ------------------------------------- preserve_expiration with an expiry
\* RedisDict(expire=E, preserve_expiration=True)
InitKeep == InitOne /\ preserve_expiration[1] /\ expire[1] # PyNone

NextKeep ==
  \/ Tick
  \/ \E key \in Keys, value \in Values : Setitem(1, key, value)
  \/ StoreSet(1)
  \/ \E key \in Keys, value \in Values : Setdefault(1, key, value)
  \/ \E key \in Keys : Delitem(1, key)

SpecKeep == InitKeep /\ [][NextKeep]_vars

NextKeepPipe ==
  \/ Tick
  \/ \E key \in Keys, value \in Values : Setitem(1, key, value)
  \/ StoreSet(1)
  \/ \E dic \in Dicts : Update(1, dic)
  \/ \E key \in Keys : Delitem(1, key)
  \/ EnterPipeline(1)
  \/ ExitPipeline(1)

SpecKeepPipe == InitKeep /\ [][NextKeepPipe]_vars

\* an item assignment of the preserving instance while a second client deletes
\* keys and time passes
NextKeepRace ==
  \/ Tick
  \/ \E key \in Keys, value \in Values : Setitem(1, key, value)
  \/ StoreSet(1)
  \/ \E key \in Keys : Delitem(2, key)

SpecKeepRace == InitKeep /\ [][NextKeepRace]_vars

\* ------------------------------- ordered variant: the round trips of a call
\* the variables a round trip of the ordered variant leaves alone
StepUnchanged ==
  UNCHANGED <<now, expire, preserve_expiration, redis, temp_redis, scopes,
              buffer, namespace_of, encoding_registry, decoding_registry>>

\* PythonRedisDict.setdefault, first round trip: SET .. NX GET on get_redis
OrdSetdefaultSet(c, key, default_value) ==
  LET formatted_key == FormatKey(key)
      result == Reply(store, formatted_key)
  IN /\ pc[c] = "idle"
     /\ redis[c] = "live"
     /\ store' = RedisSetNX(store, now, formatted_key,
                    FormatValue(default_value),
                    CreateSetGetCommand(preserve_expiration[c], expire[c]))
     /\ pc' = [pc EXCEPT ![c] = "zadd"]
     /\ pending' = [pending EXCEPT ![c] =
          [op |-> "setdefault", key |-> key,
           value |-> SetdefaultReturn(result, default_value),
           exists |-> result # <<>>]]
     /\ UNCHANGED <<zsets, lastOp>>
     /\ StepUnchanged

\* PythonRedisDict.setdefault, second round trip: _insertion_order_add
OrdSetdefaultAdd(c) ==
  /\ pc[c] = "zadd"
  /\ zsets' = ZAdd(zsets, InsertionOrderKey(namespace),
                   FormatKey(pending[c].key))
  /\ pc' = [pc EXCEPT ![c] = "idle"]
  /\ pending' = [pending EXCEPT ![c] = NoPending]
  /\ lastOp' = [lastOp EXCEPT ![c] =
       Outcome("setdefault", pending[c].key, PyNone, pending[c].value,
               EmptyStore, FALSE)]
  /\ UNCHANGED store
  /\ StepUnchanged

\* PythonRedisDict.__delitem__, first round trip: self.redis.delete
OrdDelitemDel(c, key) ==
  /\ pc[c] = "idle"
  /\ redis[c] = "live"
  /\ store' = RedisDel(store, FormatKey(key))
  /\ pc' = [pc EXCEPT ![c] = "zrem"]
  /\ pending' = [pending EXCEPT ![c] =
       [op |-> "delitem", key |-> key, value |-> PyNone,
        exists |-> FormatKey(key) \in DOMAIN store]]
  /\ UNCHANGED <<zsets, lastOp>>
  /\ StepUnchanged

\* PythonRedisDict.__delitem__, second round trip: _insertion_order_delete,
\* then "if not result: raise KeyError(key)"
OrdDelitemRem(c) ==
  /\ pc[c] = "zrem"
  /\ zsets' = ZRem(zsets, InsertionOrderKey(namespace),
                   FormatKey(pending[c].key))
  /\ pc' = [pc EXCEPT ![c] = "idle"]
  /\ pending' = [pending EXCEPT ![c] = NoPending]
  /\ lastOp' = [lastOp EXCEPT ![c] =
       Outcome("delitem", pending[c].key, PyNone,
               IF pending[c].exists THEN PyNone ELSE KeyError(pending[c].key),
               EmptyStore, FALSE)]
  /\ UNCHANGED store
  /\ StepUnchanged

\* PythonRedisDict.popitem, first round trip: _insertion_order_latest;
\* KeyError when the index is empty
OrdPopitemLatest(c) ==
  LET latest == ZRangeLast(zsets, InsertionOrderKey(namespace)) IN
    /\ pc[c] = "idle"
    /\ redis[c] = "live"
    /\ IF latest = <<>>
         THEN /\ lastOp' = [lastOp EXCEPT ![c] =
                   Outcome("popitem", <<>>, PyNone,
                           OrdPopitemReturn(latest, <<>>), EmptyStore, FALSE)]
              /\ UNCHANGED <<pc, pending>>
       ELSE /\ pc' = [pc EXCEPT ![c] = "pop_zrem"]
            /\ pending' = [pending EXCEPT ![c] =
                 [op |-> "popitem", key |-> ParseKey(namespace, latest[1]),
                  value |-> PyNone, exists |-> TRUE]]
            /\ UNCHANGED lastOp
    /\ UNCHANGED <<store, zsets>>
    /\ StepUnchanged

\* PythonRedisDict._pop, first round trip: _insertion_order_delete
OrdPopitemRem(c) ==
  /\ pc[c] = "pop_zrem"
  /\ zsets' = ZRem(zsets, InsertionOrderKey(namespace),
                   FormatKey(pending[c].key))
  /\ pc' = [pc EXCEPT ![c] = "getdel"]
  /\ UNCHANGED <<store, pending, lastOp>>
  /\ StepUnchanged

\* PythonRedisDict._pop, second round trip: GETDEL on get_redis, and the
\* return of popitem, which transforms the reply
OrdPopitemGetdel(c) ==
  LET formatted_key == FormatKey(pending[c].key)
      value == Reply(store, formatted_key)
  IN /\ pc[c] = "getdel"
     /\ store' = RedisGetDel(store, formatted_key)
     /\ pc' = [pc EXCEPT ![c] = "idle"]
     /\ pending' = [pending EXCEPT ![c] = NoPending]
     /\ lastOp' = [lastOp EXCEPT ![c] =
          Outcome("popitem", pending[c].key, PyNone,
                  OrdPopitemReturn(<<formatted_key>>, value), EmptyStore,
                  FALSE)]
     /\ UNCHANGED zsets
     /\ StepUnchanged

\* two instances of the ordered variant on the same namespace
NextOrdRace ==
  \E c \in Clients :
    \/ \E key \in Keys, value \in Values : OrdSetitem(c, key, value)
    \/ \E key \in Keys, value \in Values : OrdSetdefaultSet(c, key, value)
    \/ OrdSetdefaultAdd(c)
    \/ \E key \in Keys : OrdDelitemDel(c, key)
    \/ OrdDelitemRem(c)
    \/ OrdPopitemLatest(c)
    \/ OrdPopitemRem(c)
    \/ OrdPopitemGetdel(c)

SpecOrdRace == InitOrd /\ [][NextOrdRace]_vars

\* ----------------------------------------- ordered variant with an expiry
\* PythonRedisDict(expire=E)
InitOrdExpire == InitOne /\ ~preserve_expiration[1] /\ expire[1] # PyNone

NextOrdExpire ==
  \/ Tick
  \/ \E key \in Keys, value \in Values : OrdSetitem(1, key, value)
  \/ \E key \in Keys : OrdDelitem(1, key)
  \/ OrdPopitem(1)
  \/ OrdLen(1)
  \/ OrdKeys(1)

SpecOrdExpire == InitOrdExpire /\ [][NextOrdExpire]_vars

\* ------------------------------------ ordered variant: concurrent popitem
\* the entries two instances of the ordered variant can start from
EntrySets ==
  {StoreOf(f) : f \in [Keys -> {<<>>} \cup
     {<<[val |-> FormatValue(v), exp |-> NoExpire]>> : v \in Values}]}

\* the index that holds the keys of order, oldest first
IndexOf(order) ==
  IF order = <<>> THEN EmptyStore
  ELSE [x \in {InsertionOrderKey(namespace)} |-> order]

\* two instances on a dictionary of any entries, inserted in any order
InitPopRace ==
  /\ store \in EntrySets
  /\ now = 0
  /\ expire = [c \in Clients |-> PyNone]
  /\ preserve_expiration = [c \in Clients |-> FALSE]
  /\ redis = [c \in Clients |-> "live"]
  /\ temp_redis = [c \in Clients |-> "None"]
  /\ buffer = [c \in Clients |-> <<>>]
  /\ scopes = [c \in Clients |-> <<>>]
  /\ pc = [c \in Clients |-> "idle"]
  /\ pending = [c \in Clients |-> NoPending]
  /\ lastOp = [c \in Clients |-> NoOp]
  /\ namespace_of = [c \in Clients |-> namespace]
  /\ zsets \in {IndexOf(order) : order \in ScanOrders(DOMAIN store)}
  /\ encoding_registry = NoRegistry
  /\ decoding_registry = NoRegistry

NextPopRace ==
  \E c \in Clients :
    \/ OrdPopitemLatest(c)
    \/ OrdPopitemRem(c)
    \/ OrdPopitemGetdel(c)

SpecPopRace == InitPopRace /\ [][NextPopRace]_vars

\* ------------------------------------------- popitem, one round trip each
\* the loop that pops the same key again
PopitemSameKey(value) == IF value = <<>> THEN "pop" ELSE "idle"

\* "while True" of RedisDict.popitem after a pop: "except KeyError: continue"
\* probes again, a value ends the call
PopitemContinue(value) == IF value = <<>> THEN "probe" ELSE "idle"

\* RedisDict.popitem is called
PopitemCall(c) ==
  /\ pc[c] = "idle"
  /\ redis[c] = "live"
  /\ pc' = [pc EXCEPT ![c] = "probe"]
  /\ UNCHANGED <<store, zsets, pending, lastOp>>
  /\ StepUnchanged

\* key = self.key(): one SCAN; "if key is None: raise KeyError"
PopitemProbe(c) ==
  \E reply \in ScanOnce(store, <<>>) :
    /\ pc[c] = "probe"
    /\ IF KeyResult(reply) = PyNone
         THEN /\ pc' = [pc EXCEPT ![c] = "idle"]
              /\ pending' = [pending EXCEPT ![c] = NoPending]
              /\ lastOp' = [lastOp EXCEPT ![c] =
                   Outcome("popitem", <<>>, PyNone,
                           KeyError(Text("popitem(): dictionary is empty")),
                           EmptyStore, FALSE)]
       ELSE /\ pc' = [pc EXCEPT ![c] = "pop"]
            /\ pending' = [pending EXCEPT ![c] =
                 [op |-> "popitem", key |-> KeyResult(reply),
                  value |-> PyNone, exists |-> TRUE]]
            /\ UNCHANGED lastOp
    /\ UNCHANGED <<store, zsets>>
    /\ StepUnchanged

\* return key, self.pop(key): one GETDEL; the KeyError of pop for a key that
\* is gone is caught and the loop goes on
PopitemPop(c) ==
  LET formatted_key == FormatKey(pending[c].key)
      value == Reply(store, formatted_key)
  IN /\ pc[c] = "pop"
     /\ store' = RedisGetDel(store, formatted_key)
     /\ pc' = [pc EXCEPT ![c] = PopitemContinue(value)]
     /\ IF value = <<>>
          THEN UNCHANGED <<pending, lastOp>>
        ELSE /\ pending' = [pending EXCEPT ![c] = NoPending]
             /\ lastOp' = [lastOp EXCEPT ![c] =
                  Outcome("popitem", pending[c].key, PyNone,
                          Pair(pending[c].key, Transform(value[1])),
                          EmptyStore, FALSE)]
     /\ UNCHANGED zsets
     /\ StepUnchanged

\* the steps of popitem of instance c
PopitemSteps(c) == PopitemCall(c) \/ PopitemProbe(c) \/ PopitemPop(c)

\* the writes and deletes of the other instance
OtherWrites ==
  \/ \E key \in Keys, value \in Values : Setitem(2, key, value)
  \/ \E key \in Keys : Delitem(2, key)

NextPopitem == PopitemSteps(1) \/ OtherWrites

\* a call that is under way takes its next round trip
SpecPopitem ==
  InitTypes /\ [][NextPopitem]_vars /\ WF_vars(PopitemProbe(1) \/ PopitemPop(1))

\* --------------------------------------------------- every value of expire
\* values of the expire option: 0, whole seconds, and durations of half a
\* second, one and a half seconds and whole seconds
ExpireInputs ==
  {PyInt(n) : n \in 0..MaxExpire}
  \cup {PyTimedelta(500), PyTimedelta(1500), PyTimedelta(1000 * MaxExpire)}

\* RedisDict(expire=e)
InitSeconds ==
  /\ store = EmptyStore
  /\ now = 0
  /\ expire \in {[c \in Clients |-> IF c = 1 THEN e ELSE PyNone] :
                   e \in ExpireInputs}
  /\ preserve_expiration = [c \in Clients |-> FALSE]
  /\ redis = [c \in Clients |-> "live"]
  /\ temp_redis = [c \in Clients |-> "None"]
  /\ buffer = [c \in Clients |-> <<>>]
  /\ scopes = [c \in Clients |-> <<>>]
  /\ pc = [c \in Clients |-> "idle"]
  /\ pending = [c \in Clients |-> NoPending]
  /\ lastOp = [c \in Clients |-> NoOp]
  /\ namespace_of = [c \in Clients |-> namespace]
  /\ zsets = EmptyStore
  /\ encoding_registry = NoRegistry
  /\ decoding_registry = NoRegistry

NextSeconds ==
  \/ Tick
  \/ \E key \in Keys, value \in Values : Setitem(1, key, value)
  \/ \E key \in Keys, value \in Values : Setdefault(1, key, value)
  \/ \E key \in Keys : Delitem(1, key)

SpecSeconds == InitSeconds /\ [][NextSeconds]_vars

\* ------------------------------------------------- a scope whose body raises
\* arguments of update() with values that pass and values that fail the
\* validation
SizeDicts ==
  {dic \in {<<<<k1, v1>>, <<k2, v2>>>> :
              k1 \in Keys, k2 \in Keys,
              v1 \in {PyInt(10), PyStr(<<"v", "v", "v", "v", "v">>)},
              v2 \in {PyInt(10), PyStr(<<"v", "v", "v", "v", "v">>)}} :
     dic[1][1] # dic[2][1]}

NextUpdate ==
  \/ \E dic \in SizeDicts : Update(1, dic)
  \/ \E key \in Keys : Delitem(1, key)
  \/ EnterPipeline(1)
  \/ ExitPipeline(1)

SpecUpdate == InitTypes /\ [][NextUpdate]_vars

\* ---------------------------------------------------------------- multi_dict
\* RedisDict.multi_dict, first part: keys = list(self._scan_keys(key))
MultiDictScan(c, key) ==
  \E keys \in ScanOrders(ScanKeys(store, key)) :
    /\ pc[c] = "idle"
    /\ redis[c] = "live"
    /\ pc' = [pc EXCEPT ![c] = "mget"]
    /\ pending' = [pending EXCEPT ![c] =
         [op |-> "multi_dict", key |-> key, value |-> <<"keys", keys>>,
          exists |-> keys # <<>>]]
    /\ UNCHANGED <<store, zsets, lastOp>>
    /\ StepUnchanged

\* the replies of MGET that are not None, in the order of the reply
MgetFound(st, keys) ==
  SelectSeq([i \in 1..Len(keys) |-> Reply(st, keys[i])], LAMBDA r : r # <<>>)

\* dict(zip([i[to_rm:] for i in keys], (self._transform(i) for i in
\* self.redis.mget(keys) if i is not None))) with
\* to_rm = keys[0].rfind(':') + 1: zip stops at the shorter of the two
MultiDictResult(st, keys) ==
  IF keys = <<>> THEN <<"dict", <<>>>>
  ELSE LET to_rm == LastColon(keys[1], Len(keys[1]))
           found == MgetFound(st, keys)
       IN <<"dict", [i \in 1..Len(found) |->
                       <<SubSeq(keys[i], to_rm + 1, Len(keys[i])),
                         Transform(found[i][1])>>]>>

\* RedisDict.multi_dict, second part: the MGET and the return
MultiDictMget(c) ==
  /\ pc[c] = "mget"
  /\ pc' = [pc EXCEPT ![c] = "idle"]
  /\ pending' = [pending EXCEPT ![c] = NoPending]
  /\ lastOp' = [lastOp EXCEPT ![c] =
       Outcome("multi_dict", pending[c].key, pending[c].value,
               MultiDictResult(store, pending[c].value[2]), store, FALSE)]
  /\ UNCHANGED <<store, zsets>>
  /\ StepUnchanged

\* one instance calls multi_dict while another one writes and deletes
NextMultiDict ==
  \/ \E key \in {<<>>} \cup Keys : MultiDictScan(1, key)
  \/ MultiDictMget(1)
  \/ \E key \in Keys, value \in Values : Setitem(2, key, value)
  \/ \E key \in Keys : Delitem(2, key)

SpecMultiDict == InitTypes /\ [][NextMultiDict]_vars

\* ---------------------------------------- ordered variant: writes re-score
\* keys that fit the listpack of the index and one that does not
RescoreKeys == Keys \cup {LongKey}

NextRescore ==
  \/ \E key \in RescoreKeys, value \in Values : OrdSetitem(1, key, value)
  \/ \E key \in RescoreKeys, value \in Values : OrdSetdefault(1, key, value)
  \/ OrdKeys(1)
  \/ OrdPopitem(1)

SpecRescore == InitOrd /\ [][NextRescore]_vars

\* ------------------------------------------------- one registry, two dicts
\* the names BaseRedisDictTest.tearDown lists: the added types of the suite
new_types == ClassNames

\* registry.pop(extend_type, None) for every listed name
RegistryPop(registry, names) ==
  [x \in (DOMAIN registry) \ names |-> registry[x]]

\* BaseRedisDictTest.tearDown: self.redis_dict.clear(), then the listed
\* names are popped from both mappings through the instance
TearDown(c) ==
  \E order \in ScanOrders(ScanKeys(store, <<>>)) :
    /\ pc[c] = "idle"
    /\ SelfRedis(c, [i \in 1..Len(order) |->
                       CmdDel(FormatKey(StripNamespace(namespace, order[i])))])
    /\ encoding_registry' = RegistryPop(encoding_registry, new_types)
    /\ decoding_registry' = RegistryPop(decoding_registry, new_types)
    /\ lastOp' = [lastOp EXCEPT ![c] =
         Outcome("tearDown", <<>>, PyNone, PyNone, store, FALSE)]
    /\ UNCHANGED <<now, expire, preserve_expiration, redis, temp_redis,
                   scopes, pc, pending, namespace_of>>

\* the class both instances add, and the codec pairs they hand over
Person == [name |-> "Person", has_encode |-> TRUE, has_decode |-> TRUE]
SharedCodecs ==
  {<<"None", "None">>, <<"encode1", "decode1">>, <<"encode2", "decode2">>}

\* two instances of one process add the type, write an object and read it
NextShared ==
  \/ \E c \in Clients, codec \in SharedCodecs :
       ExtendsType(c, Person, codec[1], codec[2])
  \/ \E c \in Clients : Setitem(c, <<"a">>, PyObject("Person", 7))
  \/ \E c \in Clients : Getitem(c, <<"a">>)
  \/ \E c \in Clients : TearDown(c)

SpecShared == InitTypes /\ [][NextShared]_vars

\* ======================================================== concurrent calls
Other(c) == CHOOSE d \in Clients : d # c

\* both instances have made their call, the same one on the same key
BothDone(op, key) ==
  \A c \in Clients :
    pc[c] = "done" /\ lastOp[c].op = op /\ lastOp[c].key = key

\* C1: two concurrent setdefault(k, A) and setdefault(k, B) on a key that is
\* absent return the same value, that value is A or B, and the store ends
\* holding exactly that value under k, in either order of the two commands
C1_SetdefaultRace ==
  \A key \in Keys :
    (/\ BothDone("setdefault", key)
     /\ \E c \in Clients : FormatKey(key) \notin DOMAIN lastOp[c].old)
    => /\ lastOp[1].result = lastOp[2].result
       /\ lastOp[1].result \in {lastOp[1].arg, lastOp[2].arg}
       /\ FormatKey(key) \in DOMAIN store
       /\ store[FormatKey(key)].val = FormatValue(lastOp[1].result)
       /\ GetitemResult(store, key) = lastOp[1].result

\* both calls were setdefault with different arguments on an absent key
C1_Witness ==
  \E key \in Keys :
    /\ BothDone("setdefault", key)
    /\ \E c \in Clients : FormatKey(key) \notin DOMAIN lastOp[c].old
    /\ lastOp[1].arg # lastOp[2].arg

\* C2: setdefault(k, D) on a key that holds V returns V and leaves the stored
\* value and the expiry of k as they are, whatever expire and
\* preserve_expiration the calling instance has
C2_SetdefaultExisting ==
  [][\A c \in Clients :
       (/\ CallSetdefault(c)
        /\ FormatKey(pending[c].key) \in DOMAIN store)
       => /\ lastOp'[c].result = GetitemResult(store, pending[c].key)
          /\ FormatKey(pending[c].key) \in DOMAIN store'
          /\ store'[FormatKey(pending[c].key)]
               = store[FormatKey(pending[c].key)]
          /\ RedisTtl(store', now', FormatKey(pending[c].key))
               = RedisTtl(store, now, FormatKey(pending[c].key))]_vars

\* an instance with an expire of its own called setdefault with another
\* value on a key that was stored with a different remaining TTL
C2_Witness ==
  \E c \in Clients :
    LET k == FormatKey(lastOp[c].key) IN
      /\ pc[c] = "done"
      /\ lastOp[c].op = "setdefault"
      /\ k \in DOMAIN lastOp[c].old
      /\ lastOp[c].arg # lastOp[c].result
      /\ ~preserve_expiration[c]
      /\ expire[c] # PyNone
      /\ RedisTtl(lastOp[c].old, now, k) > 0
      /\ RedisTtl(lastOp[c].old, now, k) # expire[c][2]
      /\ RedisTtl(store, now, k) = RedisTtl(lastOp[c].old, now, k)

\* C3: of two concurrent pop(k) on a key that is present exactly one is
\* served the stored value, the other returns its default or raises
\* KeyError, and k is absent afterwards
C3_PopRace ==
  \A key \in Keys :
    (/\ BothDone("pop", key)
     /\ \E c \in Clients : FormatKey(key) \in DOMAIN lastOp[c].old)
    => /\ FormatKey(key) \notin DOMAIN store
       /\ \E c \in Clients :
            /\ FormatKey(key) \in DOMAIN lastOp[c].old
            /\ lastOp[c].result
                 = Transform(lastOp[c].old[FormatKey(key)].val)
            /\ FormatKey(key) \notin DOMAIN lastOp[Other(c)].old
            /\ lastOp[Other(c)].result
                 = IF lastOp[Other(c)].arg = SENTINEL
                     THEN KeyError(FormatKey(key))
                   ELSE lastOp[Other(c)].arg

\* both calls were pop on a present key, one without default, and one of
\* them got the value
C3_Witness ==
  \E key \in Keys :
    /\ BothDone("pop", key)
    /\ \E c \in Clients :
         /\ FormatKey(key) \in DOMAIN lastOp[c].old
         /\ lastOp[c].result = PyStr(<<"u", ":", "v">>)
         /\ lastOp[Other(c)].arg = SENTINEL
         /\ lastOp[Other(c)].result = KeyError(FormatKey(key))

\* ========================================================= pipeline scopes
\* the last SET or DEL that cmds holds for key k; an EXISTS when it holds none
RECURSIVE LastWrite(_, _)
LastWrite(cmds, k) ==
  IF Len(cmds) = 0 THEN CmdExists(k)
  ELSE IF Top(cmds).key = k /\ Top(cmds).op # "EXISTS" THEN Top(cmds)
  ELSE LastWrite(Pop1(cmds), k)

\* the last call of instance c was an item assignment to key that its
\* pipeline still holds
JustQueued(c, key) ==
  /\ lastOp[c].op = "setitem" /\ lastOp[c].queued /\ lastOp[c].key = key
  /\ redis[c] = "pipeline"
  /\ Len(buffer[c]) > 0
  /\ Top(buffer[c]).op = "SET"
  /\ Top(buffer[c]).key = FormatKey(key)
  /\ Top(buffer[c]).val = FormatValue(lastOp[c].arg)

\* C4: inside a pipeline() scope an item assignment to k changes nothing on
\* the server, and a read of k that follows it in the scope (d[k], get, in,
\* len) answers from the state before the assignment; when the outermost
\* scope exits with that assignment as the last write to k, d[k], get and in
\* answer with the assigned value
C4_PipelineDeferred ==
  [][\A c \in Clients, key \in Keys :
       /\ \A value \in Values :
            (Setitem(c, key, value) /\ redis[c] = "pipeline")
            => /\ store' = store
               /\ LastWrite(buffer'[c], FormatKey(key)).op = "SET"
               /\ LastWrite(buffer'[c], FormatKey(key)).val = FormatValue(value)
       /\ (JustQueued(c, key) /\ Getitem(c, key))
          => lastOp'[c].result = GetitemResult(lastOp[c].old, key)
       /\ (JustQueued(c, key) /\ Get(c, key))
          => lastOp'[c].result = GetResult(lastOp[c].old, key, PyNone)
       /\ (JustQueued(c, key) /\ Contains(c, key))
          => lastOp'[c].result = ContainsResult(lastOp[c].old, key)
       /\ (JustQueued(c, key) /\ DunderLen(c))
          => lastOp'[c].result = LenResult(lastOp[c].old)
       /\ \A value \in Values :
            (/\ ExitPipeline(c)
             /\ Top(scopes[c]).top_level
             /\ LastWrite(buffer[c], FormatKey(key)).op = "SET"
             /\ LastWrite(buffer[c], FormatKey(key)).val = FormatValue(value))
            => /\ GetitemResult(store', key) = value
               /\ GetResult(store', key, PyNone) = value
               /\ ContainsResult(store', key) = PyBool(TRUE)]_vars

\* inside a scope, d[k] right after an assignment to k raised KeyError or
\* returned a value other than the assigned one
C4_Witness ==
  \E c \in Clients :
    /\ redis[c] = "pipeline"
    /\ lastOp[c].op = "getitem"
    /\ Len(buffer[c]) > 0
    /\ Top(buffer[c]).op = "SET"
    /\ Top(buffer[c]).key = FormatKey(lastOp[c].key)
    /\ lastOp[c].result # Transform(Top(buffer[c]).val)
    /\ lastOp[c].result \in {KeyError(lastOp[c].key)} \cup Values

\* C5: with nested pipeline() scopes, entering and leaving an inner scope
\* sends nothing and keeps the queued commands; an assignment or deletion at
\* any depth leaves the server as it is; leaving the outermost scope applies
\* for every key the last queued write and hands the live handle back
C5_NestedPipeline ==
  [][\A c \in Clients :
       /\ (ExitPipeline(c) /\ Len(scopes[c]) >= 2)
          => /\ store' = store
             /\ buffer'[c] = buffer[c]
             /\ redis'[c] = "pipeline"
       /\ (EnterPipeline(c) /\ Len(scopes[c]) >= 1)
          => /\ store' = store
             /\ buffer'[c] = buffer[c]
             /\ redis'[c] = "pipeline"
       /\ \A key \in Keys :
            (/\ Len(scopes[c]) >= 1
             /\ \/ Delitem(c, key)
                \/ \E value \in Values : Setitem(c, key, value))
            => /\ store' = store
               /\ Len(buffer'[c]) > Len(buffer[c])
       /\ (ExitPipeline(c) /\ Len(scopes[c]) = 1)
          => /\ buffer'[c] = <<>>
             /\ redis'[c] = "live"
             /\ \A key \in Keys :
                  LET k == FormatKey(key)
                      w == LastWrite(buffer[c], k)
                  IN CASE w.op = "SET" ->
                            k \in DOMAIN store' /\ store'[k].val = w.val
                       [] w.op = "DEL" -> k \notin DOMAIN store'
                       [] OTHER -> Reply(store', k) = Reply(store, k)]_vars

\* two scopes deep, with an assignment queued for a key the server lacks
C5_Witness ==
  \E c \in Clients :
    /\ Len(scopes[c]) = 2
    /\ redis[c] = "pipeline"
    /\ Len(buffer[c]) > 0
    /\ Top(buffer[c]).op = "SET"
    /\ Top(buffer[c]).key \notin DOMAIN store

\* ============================================== expiry of item assignment
\* the last call of instance c was an item assignment sent to the server
JustStored(c) == lastOp[c].op = "setitem" /\ ~lastOp[c].queued

\* C6: with preserve_expiration and expire = E, an item assignment whose probe
\* found the key and that overwrites it stores the new value and keeps the
\* key's deadline, so the remaining TTL stays the initial TTL minus the time
\* elapsed
C6_PreserveKeepsTTL ==
  [][\A c \in Clients :
       LET k == FormatKey(pending[c].key) IN
         (/\ StoreSet(c)
          /\ preserve_expiration[c]
          /\ pending[c].exists
          /\ k \in DOMAIN store)
         => /\ k \in DOMAIN store'
            /\ store'[k].val = FormatValue(pending[c].value)
            /\ store'[k].exp = store[k].exp
            /\ RedisTtl(store', now', k) = RedisTtl(store, now, k)]_vars

\* a key written with TTL E was overwritten with another value after time
\* had passed, and its remaining TTL is below E
C6_Witness ==
  \E c \in Clients :
    LET k == FormatKey(lastOp[c].key) IN
      /\ JustStored(c)
      /\ preserve_expiration[c]
      /\ expire[c] # PyNone
      /\ k \in DOMAIN lastOp[c].old
      /\ k \in DOMAIN store
      /\ store[k].val = FormatValue(lastOp[c].arg)
      /\ store[k].val # lastOp[c].old[k].val
      /\ RedisTtl(store, now, k) > 0
      /\ RedisTtl(store, now, k) < expire[c][2]

\* C7: without preserve_expiration and with expire = E, every item assignment
\* sets the TTL of its key to E, whether the key is new or held a value with
\* another remaining TTL
C7_AssignmentSetsTTL ==
  [][\A c \in Clients, key \in Keys, value \in Values :
       (/\ Setitem(c, key, value)
        /\ ~preserve_expiration[c]
        /\ expire[c] # PyNone
        /\ redis[c] = "live")
       => /\ FormatKey(key) \in DOMAIN store'
          /\ store'[FormatKey(key)].val = FormatValue(value)
          /\ RedisTtl(store', now', FormatKey(key)) = expire[c][2]]_vars

\* a key whose remaining TTL had dropped below E was overwritten, and its
\* TTL is E again
C7_Witness ==
  \E c \in Clients :
    LET k == FormatKey(lastOp[c].key) IN
      /\ JustStored(c)
      /\ ~preserve_expiration[c]
      /\ expire[c] # PyNone
      /\ k \in DOMAIN lastOp[c].old
      /\ k \in DOMAIN store
      /\ lastOp[c].old[k].exp # NoExpire
      /\ lastOp[c].old[k].exp < store[k].exp
      /\ RedisTtl(store, now, k) = expire[c][2]

\* C8: with preserve_expiration and expire = E, an item assignment outside a
\* pipeline scope whose probe did not find the key creates the key with
\* TTL E
C8_PreserveNewKey ==
  [][\A c \in Clients :
       LET k == FormatKey(pending[c].key) IN
         (/\ StoreSet(c)
          /\ preserve_expiration[c]
          /\ expire[c] # PyNone
          /\ ~pending[c].exists)
         => /\ k \in DOMAIN store'
            /\ store'[k].val = FormatValue(pending[c].value)
            /\ RedisTtl(store', now', k) = expire[c][2]]_vars

\* a preserving instance assigned to a key the server did not hold, at a
\* time after 0, and the key has TTL E
C8_Witness ==
  \E c \in Clients :
    LET k == FormatKey(lastOp[c].key) IN
      /\ JustStored(c)
      /\ preserve_expiration[c]
      /\ expire[c] # PyNone
      /\ k \notin DOMAIN lastOp[c].old
      /\ k \in DOMAIN store
      /\ now > 0
      /\ RedisTtl(store, now, k) = expire[c][2]

\* ======================================================= expire_at scopes
\* C9: when an expire_at() scope is left, at the end of its body or by an
\* exception of its body, self.expire is again what it was when that scope
\* was entered; nested scopes are left innermost first, each restoring the
\* value it saved
C9_ExpireAtRestores ==
  [][\A c \in Clients :
       (ExitExpireAt(c) \/ RaiseExpireAt(c))
       => expire'[c] = Top(scopes[c]).temp]_vars

\* the expire_at() scopes instance c is inside of, outermost first
ExpireScopes(c) == SelectSeq(scopes[c], LAMBDA f : f.kind = "expire_at")

\* C10: an item assignment of an instance without preserve_expiration made
\* inside expire_at(T) gives its key TTL T; after the scope is left at the end
\* of its body an assignment gives the default the instance had before
\* (self.expire is restored); entering and leaving a scope leaves the keys
\* written before, values and deadlines, as they are
C10_ExpireAtTTL ==
  [][\A c \in Clients :
       /\ \A key \in Keys, value \in Values :
            (/\ Setitem(c, key, value)
             /\ ~preserve_expiration[c]
             /\ redis[c] = "live"
             /\ Len(ExpireScopes(c)) > 0)
            => RedisTtl(store', now', FormatKey(key))
                 = Top(ExpireScopes(c)).sec_epoch[2]
       /\ ExitExpireAt(c) => expire'[c] = Top(scopes[c]).temp
       /\ (\/ ExitExpireAt(c)
           \/ RaiseExpireAt(c)
           \/ \E n \in 1..MaxExpire : EnterExpireAt(c, PyInt(n)))
          => store' = store]_vars

\* an assignment made inside expire_at(T) gave its key a TTL other than T
C10_Witness ==
  \E c \in Clients :
    LET k == FormatKey(lastOp[c].key) IN
      /\ JustStored(c)
      /\ ~preserve_expiration[c]
      /\ Len(ExpireScopes(c)) > 0
      /\ k \in DOMAIN store
      /\ expire[c] # Top(ExpireScopes(c)).sec_epoch
      /\ store[k].exp = now + expire[c][2]

\* ============================================================ namespaces
\* st without the entries that hold the number of instance d
Hide(st, d) ==
  [x \in {k \in DOMAIN st : st[k].val # FormatValue(PyInt(d))} |-> st[x]]

\* C11: of two instances with different namespaces, a call of one returns
\* what it would return with the entries written through the other one
\* taken away, and leaves each of those entries in place as it is; for every
\* pair of namespaces and every key, with or without a colon
C11_NamespaceIsolation ==
  [][\A c \in Clients :
       NsStep(c)
       => /\ lastOp'[c].result
               = NsResult(lastOp'[c].op, Hide(store, Other(c)),
                          namespace_of[c], lastOp'[c].key, lastOp'[c].arg)
          /\ \A k \in DOMAIN store :
               store[k].val = FormatValue(PyInt(Other(c)))
               => k \in DOMAIN store' /\ store'[k] = store[k]]_vars

\* the same for instances whose namespaces hold no colon
C11_WithoutColon ==
  [][\A c \in Clients :
       (/\ NsStep(c)
        /\ \A d \in Clients : FirstColon(namespace_of[d], 1) = 0)
       => /\ lastOp'[c].result
               = NsResult(lastOp'[c].op, Hide(store, Other(c)),
                          namespace_of[c], lastOp'[c].key, lastOp'[c].arg)
          /\ \A k \in DOMAIN store :
               store[k].val = FormatValue(PyInt(Other(c)))
               => k \in DOMAIN store' /\ store'[k] = store[k]]_vars

\* ====================================================== the ordered variant
\* the ordinal an entry of an insertion-order run carries
OrdinalOf(st, k) == Transform(st[k].val)[2]

\* the physical keys of st, earliest assignment first
InsertionOrder(st) ==
  CHOOSE f \in [1..Cardinality(DOMAIN st) -> DOMAIN st] :
    \A i, j \in 1..Cardinality(DOMAIN st) :
      i < j => OrdinalOf(st, f[i]) < OrdinalOf(st, f[j])

LogicalKeys(seq) == [i \in 1..Len(seq) |-> StripNamespace(namespace, seq[i])]

\* C12: in the ordered variant, after distinct keys were assigned one after
\* the other, keys() yields them in the order of their assignment, and
\* popitem() removes and returns the entry that was assigned last
C12_InsertionOrder ==
  /\ lastOp[1].op = "keys" =>
       lastOp[1].result = <<"keys", LogicalKeys(InsertionOrder(store))>>
  /\ lastOp[1].op = "popitem" /\ lastOp[1].old # EmptyStore =>
       LET seq == InsertionOrder(lastOp[1].old) IN
         /\ lastOp[1].result =
              Pair(StripNamespace(namespace, seq[Len(seq)]), PyInt(Len(seq)))
         /\ DOMAIN store = (DOMAIN lastOp[1].old) \ {seq[Len(seq)]}

\* the same for runs whose physical keys all fit the listpack of the index
C12_ShortKeys ==
  (\A k \in (DOMAIN store) \cup (DOMAIN lastOp[1].old) :
     Len(k) <= zset_max_listpack_value) => C12_InsertionOrder

\* keys() was called on three entries and popitem() on two
C12_Witness ==
  \/ lastOp[1].op = "keys" /\ Cardinality(DOMAIN store) = 3
  \/ lastOp[1].op = "popitem" /\ Cardinality(DOMAIN lastOp[1].old) = 2

\* the members of the index of the namespace, as a set
IndexRecords(zs) ==
  {ZMembers(zs, InsertionOrderKey(namespace))[i] :
     i \in 1..ZCard(zs, InsertionOrderKey(namespace))}

\* C13: in the ordered variant, with one client and no expiry, after every
\* finished sequence of calls the index holds a record for exactly the keys
\* that have an entry, and len(d) is the number of entries
C13_IndexMatchesData ==
  scopes[1] = <<>> =>
    /\ IndexRecords(zsets) = DOMAIN store
    /\ OrdLenResult(zsets) = PyInt(Cardinality(DOMAIN store))

\* pop() took an entry away outside every scope
C13_Witness ==
  /\ scopes[1] = <<>>
  /\ lastOp[1].op = "pop"
  /\ lastOp[1].result[1] # "KeyError"

\* no entry and no queued command of the instance is about key
AbsentKey(c, key) ==
  /\ FormatKey(key) \notin DOMAIN store
  /\ \A i \in 1..Len(buffer[c]) : buffer[c][i].key # FormatKey(key)

\* C16: in the ordered variant "del d[k]" of a present key removes the entry
\* and its index record, and "del d[k]" of an absent key raises KeyError(k),
\* outside a pipeline scope and inside one
C16_OrderedDelete ==
  [][\A key \in Keys :
       OrdDelitem(1, key) =>
         /\ AbsentKey(1, key) => lastOp'[1].result = KeyError(key)
         /\ ~AbsentKey(1, key) => lastOp'[1].result = PyNone
         /\ redis[1] = "live" =>
              /\ FormatKey(key) \notin DOMAIN store'
              /\ FormatKey(key) \notin IndexRecords(zsets')]_vars

\* the same outside every pipeline scope
C16_OutsidePipeline ==
  [][\A key \in Keys :
       OrdDelitem(1, key) /\ redis[1] = "live" =>
         /\ AbsentKey(1, key) => lastOp'[1].result = KeyError(key)
         /\ ~AbsentKey(1, key) => lastOp'[1].result = PyNone
         /\ FormatKey(key) \notin DOMAIN store'
         /\ FormatKey(key) \notin IndexRecords(zsets')]_vars

\* an absent key was deleted inside a pipeline scope, and a present one
\* outside
C16_Witness ==
  /\ lastOp[1].op = "delitem"
  /\ \/ lastOp[1].queued /\ FormatKey(lastOp[1].key) \notin DOMAIN lastOp[1].old
     \/ ~lastOp[1].queued /\ FormatKey(lastOp[1].key) \in DOMAIN lastOp[1].old

\* ========================================================= the whole mapping
\* the entries of the namespace in st
OwnKeys(st) == ScanKeysIn(st, namespace, <<>>)

\* C14: popitem() of the unordered variant removes one entry and returns its
\* pair whenever the namespace holds an entry, whatever other keys the
\* server holds, and raises KeyError only when the namespace holds none
C14_Popitem ==
  lastOp[1].op = "popitem" =>
    IF OwnKeys(lastOp[1].old) = {}
      THEN /\ lastOp[1].result[1] = "KeyError"
           /\ store = lastOp[1].old
    ELSE \E k \in OwnKeys(lastOp[1].old) :
           /\ lastOp[1].result = Pair(StripNamespace(namespace, k),
                                      Transform(lastOp[1].old[k].val))
           /\ store = Remove(lastOp[1].old, k)

\* popitem() whenever the one scan call it makes yields a key
C14_ScanYields ==
  lastOp[1].op = "popitem" /\ lastOp[1].result[1] # "KeyError" => C14_Popitem

\* popitem() was called on an entry next to a key of another namespace
C14_Witness ==
  /\ lastOp[1].op = "popitem"
  /\ OwnKeys(lastOp[1].old) # {}
  /\ ForeignKey \in DOMAIN lastOp[1].old

C15_DeleteAbsentSilent ==
  [][\A key \in Keys :
       Delitem(1, key) /\ FormatKey(key) \notin DOMAIN store =>
         /\ lastOp'[1].result = PyNone
         /\ store' = store]_vars

\* C17: for an absent key, d[k] raises KeyError, get(k, default) returns
\* default, None when none was given, "k in d" is false, pop(k, default)
\* returns default and pop(k) raises KeyError; the store stays as it is
C17_AbsentKey ==
  [][\A key \in Keys :
       FormatKey(key) \notin DOMAIN store =>
         /\ Getitem(1, key) =>
              lastOp'[1].result[1] = "KeyError" /\ store' = store
         /\ \A default \in Defaults :
              GetDefault(1, key, default) =>
                lastOp'[1].result = default /\ store' = store
         /\ Contains(1, key) =>
              lastOp'[1].result = PyBool(FALSE) /\ store' = store
         /\ \A default \in Defaults :
              Pop(1, key, default) =>
                lastOp'[1].result = default /\ store' = store
         /\ Pop(1, key, SENTINEL) =>
              lastOp'[1].result[1] = "KeyError" /\ store' = store]_vars

\* get(k, 10) was called for an absent key and returned 10
C17_Witness ==
  /\ lastOp[1].op = "get"
  /\ FormatKey(lastOp[1].key) \notin DOMAIN store
  /\ lastOp[1].arg = PyInt(10)
  /\ lastOp[1].result = PyInt(10)

\* the plain dictionary an instance stands for
Abs(st) ==
  [key \in {StripNamespace(namespace, k) : k \in OwnKeys(st)} |->
     Transform(st[FormatKey(key)].val)]

\* a plain dictionary: assignment, deletion, update
DictSet(dict, key, value) ==
  [x \in (DOMAIN dict) \cup {key} |-> IF x = key THEN value ELSE dict[x]]
DictDel(dict, key) == [x \in (DOMAIN dict) \ {key} |-> dict[x]]
RECURSIVE DictUpdate(_, _)
DictUpdate(dict, items) ==
  IF Len(items) = 0 THEN dict
  ELSE DictUpdate(DictSet(dict, Head(items)[1], Head(items)[2]), Tail(items))

\* one call of the instance against the same call of the plain dictionary;
\* with lenient, popitem() may also raise KeyError and change nothing
RefinesStep(o, dict, dict2, lenient) ==
  CASE o.op = "setitem" ->
         dict2 = DictSet(dict, o.key, o.arg) /\ o.result = PyNone
    [] o.op = "delitem" ->
         o.key \in DOMAIN dict => dict2 = DictDel(dict, o.key) /\ o.result = PyNone
    [] o.op = "update" -> dict2 = DictUpdate(dict, o.arg[2])
    [] o.op = "pop" ->
         IF o.key \in DOMAIN dict
           THEN o.result = dict[o.key] /\ dict2 = DictDel(dict, o.key)
         ELSE /\ dict2 = dict
              /\ IF o.arg = SENTINEL THEN o.result[1] = "KeyError"
                 ELSE o.result = o.arg
    [] o.op = "popitem" ->
         \/ /\ dict = <<>> \/ lenient
            /\ o.result[1] = "KeyError"
            /\ dict2 = dict
         \/ \E key \in DOMAIN dict :
              o.result = Pair(key, dict[key]) /\ dict2 = DictDel(dict, key)
    [] o.op = "setdefault" ->
         IF o.key \in DOMAIN dict
           THEN o.result = dict[o.key] /\ dict2 = dict
         ELSE o.result = o.arg /\ dict2 = DictSet(dict, o.key, o.arg)
    [] o.op = "clear" -> dict2 = <<>>
    [] o.op = "len" ->
         o.result = PyInt(Cardinality(DOMAIN dict)) /\ dict2 = dict
    [] o.op = "contains" ->
         o.result = PyBool(o.key \in DOMAIN dict) /\ dict2 = dict
    [] o.op = "get" ->
         /\ o.result = IF o.key \in DOMAIN dict THEN dict[o.key] ELSE o.arg
         /\ dict2 = dict
    [] o.op = "getitem" ->
         /\ IF o.key \in DOMAIN dict THEN o.result = dict[o.key]
            ELSE o.result[1] = "KeyError"
         /\ dict2 = dict
    [] o.op = "to_dict" -> o.result = <<"dict", dict>> /\ dict2 = dict
    [] OTHER -> FALSE

\* C18: with one client, no expiry and no pipeline scope, the unordered
\* variant behaves as a plain dictionary under item assignment, deletion of
\* a present key, update, pop, popitem, setdefault and clear, seen through
\* len, membership, get, d[k] and to_dict()
C18_RefinesDict ==
  [][RefinesStep(lastOp'[1], Abs(store), Abs(store'), FALSE)]_vars

\* the same with a popitem() that may fail on a dictionary that is not empty
C18_LenientPopitem ==
  [][RefinesStep(lastOp'[1], Abs(store), Abs(store'), TRUE)]_vars

\* popitem() was called on a dictionary of two entries
C18_Witness ==
  /\ lastOp[1].op = "popitem"
  /\ Cardinality(OwnKeys(lastOp[1].old)) = 2

\* ============================================================ typed values
\* C19: for a value v of a built-in type T, "d[k] = v" stores the text
\* "<name of T>:<encode(v)>" and d[k] then returns a value of type T equal
\* to v, also when k held a value of another type before
C19_RoundTrip ==
  lastOp[1].op = "setitem" =>
    /\ store[FormatKey(lastOp[1].key)].val =
         Text(lastOp[1].arg[1]) \o <<":">> \o Encode(lastOp[1].arg)
    /\ GetitemResult(store, lastOp[1].key) = lastOp[1].arg

\* does value hold a tuple inside a tuple or a list
RECURSIVE HasTuple(_)
HasTuple(value) ==
  /\ value[1] \in {"tuple", "list"}
  /\ \E i \in 1..Len(value[2]) :
       value[2][i][1] = "tuple" \/ HasTuple(value[2][i])

\* the same for values that hold no tuple inside another sequence
C19_FlatValues == ~HasTuple(lastOp[1].arg) => C19_RoundTrip

\* a tuple was assigned to a key that held a value of another type
C19_Witness ==
  /\ lastOp[1].op = "setitem"
  /\ lastOp[1].arg[1] = "tuple"
  /\ FormatKey(lastOp[1].key) \in DOMAIN lastOp[1].old
  /\ Transform(lastOp[1].old[FormatKey(lastOp[1].key)].val)[1] = "int"

\* ========================================================= foreign entries
\* key holds a text another program wrote, with a colon or without one
HoldsForeign(key, colon) ==
  /\ FormatKey(key) \in DOMAIN store
  /\ store[FormatKey(key)].val \in ForeignTexts
  /\ (FirstColon(store[FormatKey(key)].val, 1) > 0) = colon

\* the calls that read key
ReadsKey(key) ==
  \/ Getitem(1, key)
  \/ \E default \in Defaults : GetDefault(1, key, default)
  \/ \E default \in Defaults \cup {SENTINEL} : Pop(1, key, default)
  \/ \E value \in Values : Setdefault(1, key, value)

\* C20: reading a key whose stored text has no colon never raises: d[k],
\* get(k), pop(k) and setdefault(k, D) return the whole text as the value
\* and "k in d" is true
C20_ForeignEntry ==
  [][\A key \in Keys :
       HoldsForeign(key, FALSE) =>
         /\ ReadsKey(key) => lastOp'[1].result = PyStr(store[FormatKey(key)].val)
         /\ Contains(1, key) => lastOp'[1].result = PyBool(TRUE)]_vars

\* what the reads of a text without colon do: each raises ValueError
C20_ForeignRaises ==
  [][\A key \in Keys :
       HoldsForeign(key, FALSE) /\ (ReadsKey(key) \/ Contains(1, key)) =>
         lastOp'[1].result = ValueError]_vars

\* a text with a colon after an unknown prefix is read without an error, as
\* the part after the colon
C20_UnknownPrefix ==
  [][\A key \in Keys :
       HoldsForeign(key, TRUE) =>
         /\ ReadsKey(key) =>
              lastOp'[1].result =
                PyStr(SubSeq(store[FormatKey(key)].val, 3,
                             Len(store[FormatKey(key)].val)))
         /\ Contains(1, key) => lastOp'[1].result = PyBool(TRUE)]_vars

\* a key that held a text without colon was read
C20_Witness ==
  /\ lastOp[1].op \in {"getitem", "get", "contains"}
  /\ HoldsForeign(lastOp[1].key, FALSE)

\* tags without colon, one registered and one not, and payloads with and
\* without colons
PlainTags == {Text("str"), <<"x">>}
Payloads == {<<>>, <<"y">>, <<"y", ":", "z">>, <<"u", ":", "v">>}

\* C21: a stored text is split at its first colon only: the text before it
\* chooses the decoder, which receives all the text after it, so a payload
\* with colons is read back unchanged, and a tag without decoder yields the
\* payload as it is
C21_FirstColon ==
  [][\A key \in Keys :
       /\ lastOp'[1].op = "getitem"
       /\ FormatKey(key) \in DOMAIN store
       /\ Getitem(1, key)
       => \A tag \in PlainTags, payload \in Payloads :
            store[FormatKey(key)].val = tag \o <<":">> \o payload =>
              lastOp'[1].result = PyStr(payload)]_vars

\* d[k] read "y:z" from the stored text "x:y:z", and "u:v" from "str:u:v"
C21_Witness ==
  /\ lastOp[1].op = "getitem"
  /\ FormatKey(lastOp[1].key) \in DOMAIN store
  /\ \/ /\ store[FormatKey(lastOp[1].key)].val = <<"x", ":", "y", ":", "z">>
        /\ lastOp[1].result = PyStr(<<"y", ":", "z">>)
     \/ /\ store[FormatKey(lastOp[1].key)].val = FormatValue(PyStr(<<"u", ":", "v">>))
        /\ lastOp[1].result = PyStr(<<"u", ":", "v">>)

\* ============================================================ extends_type
\* C22: adding a type name again overwrites it: after extends_type with the
\* codecs (e1, d1) and then (e2, d2), the mappings hold e2 and d2, later
\* writes encode with e2 and later reads decode with d2, and both mappings
\* always hold an entry for the same names
C22_Overwrite ==
  [][/\ \A class_type \in Classes, encode \in Encoders \ {"None"},
           decode \in Decoders \ {"None"} :
          /\ lastOp'[1].key = <<class_type.name>>
          /\ lastOp'[1].arg = <<"codecs", encode, decode>>
          /\ ExtendsType(1, class_type, encode, decode)
          => /\ encoding_registry'[class_type.name] = encode
             /\ decoding_registry'[class_type.name] = decode
     /\ DOMAIN encoding_registry' = DOMAIN decoding_registry'
     /\ /\ "Person" \in DOMAIN encoding_registry
        /\ Setitem(1, <<"a">>, PyObject("Person", 7))
        => store'[FormatKey(<<"a">>)].val =
             <<"Person", ":">> \o
               (CASE encoding_registry["Person"] = "encode1" -> <<"7">>
                  [] encoding_registry["Person"] = "encode2" -> <<"#", "7">>
                  [] OTHER -> <<"m", "7">>)
     /\ /\ "Person" \in DOMAIN decoding_registry
        /\ FormatKey(<<"a">>) \in DOMAIN store
        /\ decoding_registry["Person"] = "decode2"
        /\ store[FormatKey(<<"a">>)].val = <<"Person", ":", "#", "7">>
        /\ Getitem(1, <<"a">>)
        => lastOp'[1].result = PyObject("Person", 7)]_vars

\* a name that was added with the first codecs was added again with the
\* second ones
C22_Witness ==
  /\ lastOp[1].op = "extends_type"
  /\ lastOp[1].arg = <<"codecs", "encode2", "decode2">>
  /\ lastOp[1].key[1] \in DOMAIN lastOp[1].old
  /\ lastOp[1].old[lastOp[1].key[1]] = "encode1"
  /\ encoding_registry[lastOp[1].key[1]] = "encode2"

\* the methods a call of extends_type needs and the class does not have
MissingMethods(class_type, encode, decode) ==
  {method \in {"encode", "decode"} :
     /\ (IF method = "encode" THEN encode ELSE decode) = "None"
     /\ ~(IF method = "encode" THEN class_type.has_encode
          ELSE class_type.has_decode)}

\* C23: extends_type for a class without a codec function and without the
\* method in its place raises NotImplementedError naming a missing method,
\* and changes neither mapping
C23_NoHalfRegistration ==
  [][\A class_type \in Classes, encode \in Encoders, decode \in Decoders :
       /\ lastOp'[1].key = <<class_type.name>>
       /\ lastOp'[1].arg = <<"codecs", encode, decode>>
       /\ MissingMethods(class_type, encode, decode) # {}
       /\ ExtendsType(1, class_type, encode, decode)
       => /\ lastOp'[1].result[1] = "NotImplementedError"
          /\ lastOp'[1].result[2] \in MissingMethods(class_type, encode, decode)
          /\ encoding_registry' = encoding_registry
          /\ decoding_registry' = decoding_registry]_vars

\* a class with an encode method and no decode method was refused
C23_Witness ==
  /\ lastOp[1].op = "extends_type"
  /\ lastOp[1].key = <<"EncodeOnly">>
  /\ lastOp[1].arg = <<"codecs", "None", "None">>
  /\ lastOp[1].result = NotImplementedError("decode")

\* ============================================================= size limits
\* the call that just finished was a write
JustWrote == lastOp[1].op \in {"setitem", "setdefault"}

\* C24: an item assignment or setdefault whose key or whose encoded value is
\* longer than the configured maximum raises ValueError, whatever the type of
\* the value, and leaves the store as it was
C24_OversizedWrite ==
  /\ JustWrote
  /\ \/ Len(lastOp[1].key) > max_string_size
     \/ Len(Encode(lastOp[1].arg)) > max_string_size
  => lastOp[1].result = ValueError /\ store = lastOp[1].old

\* the same for long keys and long values of type str
C24_OversizedStr ==
  /\ JustWrote
  /\ \/ Len(lastOp[1].key) > max_string_size
     \/ lastOp[1].arg[1] = "str" /\ Len(lastOp[1].arg[2]) > max_string_size
  => lastOp[1].result = ValueError /\ store = lastOp[1].old

\* a list whose encoded text is longer than the limit was written
C24_Witness ==
  /\ JustWrote
  /\ lastOp[1].arg[1] = "list"
  /\ Len(Encode(lastOp[1].arg)) > max_string_size

\* ====================================================== multi_* when ordered
\* the call that just finished was one of the four multi_* calls
MultiOps == {"multi_get", "multi_chain_get", "multi_dict", "multi_del"}

\* C25: in the ordered variant multi_get, multi_chain_get, multi_dict and
\* multi_del raise NotImplementedError for every argument, queue and send no
\* command and leave entries and index as they were
C25_MultiNotImplemented ==
  [][lastOp'[1].op \in MultiOps /\ lastOp'[1] # lastOp[1] =>
       /\ lastOp'[1].result[1] = "NotImplementedError"
       /\ store' = store
       /\ zsets' = zsets
       /\ buffer' = buffer]_vars

\* multi_del was called with a prefix of an existing entry's key
C25_Witness ==
  /\ lastOp[1].op = "multi_del"
  /\ ScanKeys(lastOp[1].old, lastOp[1].key) # {}
  /\ lastOp[1].result = NotPartOfPythonRedisDict

\* ========================================================== after the scope
\* C26: once the outermost pipeline() scope has exited, also when its flush
\* failed, the instance does not buffer: the store handle is the live one and
\* the saved-handle slot is empty
C26_NotBuffering ==
  scopes[1] = <<>> => redis[1] = "live" /\ temp_redis[1] = "None"

\* the same for the exit of a scope that took the live handle away, when its
\* flush succeeded
C26_AfterFlush ==
  [][ExitPipeline(1) /\ scopes'[1] = <<>> /\ Top(scopes[1]).top_level =>
       redis'[1] = "live" /\ temp_redis'[1] = "None"]_vars

\* a failed flush is raised to the caller of the scope
C26_FlushErrorRaised ==
  [][ExitPipelineFails(1) => lastOp'[1].result = RedisError]_vars

\* after a failed flush an item assignment outside every scope was queued
\* and not written
C26_Witness ==
  /\ scopes[1] = <<>>
  /\ lastOp[1].op = "setitem"
  /\ lastOp[1].queued
  /\ FormatKey(lastOp[1].key) \notin DOMAIN store

\* ========================================================= deferred writes
\* the step begins and ends inside a pipeline scope
InsideScope == scopes[1] # <<>> /\ scopes'[1] # <<>>

\* the step is a call of pop or setdefault
PopOrSetdefault ==
  /\ lastOp'[1].op \in {"pop", "setdefault"}
  /\ \/ \E key \in Keys, default \in PopDefaults : Pop(1, key, default)
     \/ \E key \in Keys, value \in Values : Setdefault(1, key, value)

\* C27: inside a pipeline scope item assignment, delete, update, clear, pop
\* and setdefault leave the store unchanged until the outermost scope exits
C27_AllDeferred ==
  [][InsideScope => store' = store]_vars

\* the same for item assignment, delete, update and clear
C27_QueuedWrites ==
  [][InsideScope /\ ~PopOrSetdefault => store' = store]_vars

\* pop took an entry away inside a scope
C27_Witness ==
  /\ scopes[1] # <<>>
  /\ lastOp[1].op = "pop"
  /\ FormatKey(lastOp[1].key) \in DOMAIN lastOp[1].old
  /\ FormatKey(lastOp[1].key) \notin DOMAIN store

\* ============================================ preserve_expiration, expire=E
\* C28: with preserve_expiration and expire = E, setdefault(k, D) on an absent
\* key creates k with TTL E, as an item assignment to an absent key does; the
\* key is never left without expiry
C28_SetdefaultNewKey ==
  [][\A key \in Keys, value \in Values :
       (/\ FormatKey(key) \notin DOMAIN store
        /\ Setdefault(1, key, value))
       => /\ FormatKey(key) \in DOMAIN store'
          /\ RedisTtl(store', now', FormatKey(key)) = expire[1][2]]_vars

\* what happens instead: the key is created, with no expiry
C28_SetdefaultNoExpiry ==
  [][\A key \in Keys, value \in Values :
       (/\ FormatKey(key) \notin DOMAIN store
        /\ Setdefault(1, key, value))
       => /\ FormatKey(key) \in DOMAIN store'
          /\ store'[FormatKey(key)].exp = NoExpire]_vars

\* setdefault created a key, and the key has no expiry
C28_Witness ==
  LET k == FormatKey(lastOp[1].key) IN
    /\ lastOp[1].op = "setdefault"
    /\ k \notin DOMAIN lastOp[1].old
    /\ k \in DOMAIN store
    /\ store[k].exp = NoExpire

\* the keys the batch cmds writes
WrittenKeys(cmds) == {cmds[i].key : i \in {j \in 1..Len(cmds) : cmds[j].op = "SET"}}

\* the batch cmds holds no existence probe
NoProbe(cmds) == \A i \in 1..Len(cmds) : cmds[i].op # "EXISTS"

\* flushing the batch cmds gives every key it writes the TTL of an item
\* assignment outside a scope: E for a new key, the remaining TTL for an
\* existing one
FlushedTTL(cmds) ==
  \A k \in WrittenKeys(cmds) :
    /\ k \in DOMAIN store'
    /\ RedisTtl(store', now', k) =
         IF k \in DOMAIN store THEN RedisTtl(store, now, k) ELSE expire[1][2]

\* the same for the existing keys only
FlushedKeepsTTL(cmds) ==
  \A k \in WrittenKeys(cmds) \cap DOMAIN store :
    /\ k \in DOMAIN store'
    /\ RedisTtl(store', now', k) = RedisTtl(store, now, k)

\* the step flushes the batch of the outermost scope
Flushes == ExitPipeline(1) /\ Top(scopes[1]).top_level

\* C29: with preserve_expiration and expire = E, the keys written inside a
\* pipeline scope, those of update() included, get the TTL they get outside:
\* E for a new key, the remaining TTL for an existing key; and the flushed
\* batch holds no existence probe
C29_PipelineTTL ==
  [][/\ Flushes => NoProbe(buffer[1]) /\ FlushedTTL(buffer[1])
     /\ \A dic \in Dicts :
          redis[1] = "live" /\ Update(1, dic) =>
            /\ NoProbe(StoreCommands(1, dic))
            /\ FlushedTTL(StoreCommands(1, dic))]_vars

\* the same for the existing keys of the batch
C29_ExistingKeepsTTL ==
  [][/\ Flushes => FlushedKeepsTTL(buffer[1])
     /\ \A dic \in Dicts :
          redis[1] = "live" /\ Update(1, dic) =>
            FlushedKeepsTTL(StoreCommands(1, dic))]_vars

\* the batch of a scope or of update() always holds a probe before each write
C29_ProbeQueued ==
  [][/\ Flushes /\ WrittenKeys(buffer[1]) # {} => ~NoProbe(buffer[1])
     /\ \A dic \in Dicts :
          redis[1] = "live" /\ Update(1, dic) =>
            ~NoProbe(StoreCommands(1, dic))]_vars

\* a key assigned inside a scope while absent is there after the scope, with
\* no expiry
C29_Witness ==
  LET k == FormatKey(lastOp[1].key) IN
    /\ scopes[1] = <<>>
    /\ lastOp[1].op = "setitem"
    /\ lastOp[1].queued
    /\ k \notin DOMAIN lastOp[1].old
    /\ k \in DOMAIN store
    /\ store[k].exp = NoExpire

\* C30: with preserve_expiration and expire = E, an item assignment ends with
\* a TTL on its key also when another client deletes the key, or the key
\* expires, between the assignment's own commands: TTL E if the key is absent
\* when it is written, the remaining TTL if it is present, never no expiry
C30_RaceFree ==
  [][StoreSet(1) =>
       LET k == FormatKey(pending[1].key) IN
         /\ k \in DOMAIN store'
         /\ RedisTtl(store', now', k) =
              IF k \in DOMAIN store THEN RedisTtl(store, now, k)
              ELSE expire[1][2]]_vars

\* the same when the key is still as the probe saw it
C30_Undisturbed ==
  [][StoreSet(1) =>
       LET k == FormatKey(pending[1].key) IN
         pending[1].exists = (k \in DOMAIN store) =>
           /\ k \in DOMAIN store'
           /\ RedisTtl(store', now', k) =
                IF k \in DOMAIN store THEN RedisTtl(store, now, k)
                ELSE expire[1][2]]_vars

\* the instance wrote a key that had gone after the probe, the key has no
\* expiry, and the second client had deleted it
C30_Witness ==
  LET k == FormatKey(lastOp[1].key) IN
    /\ lastOp[1].op = "setitem"
    /\ k \notin DOMAIN lastOp[1].old
    /\ k \in DOMAIN store
    /\ store[k].exp = NoExpire
    /\ lastOp[2].op = "delitem"
    /\ lastOp[2].key = lastOp[1].key
    /\ now = 0

\* ============================================= ordered variant, two clients
\* no call is under way
AllIdle == \A c \in Clients : pc[c] = "idle"

\* C31: in the ordered variant, under every interleaving of two clients'
\* item assignments, deletes, setdefaults and popitems, once the calls have
\* finished the index holds a key exactly when the data space holds it
C31_CommitAsUnit ==
  AllIdle => IndexRecords(zsets) = DOMAIN store

\* an item assignment writes the entry and its index record in one step
C31_AssignmentIsUnit ==
  [][\A c \in Clients, key \in Keys :
       lastOp'[c].op = "setitem" /\ lastOp'[c].key = key
       /\ (\E value \in Values : OrdSetitem(c, key, value))
       => /\ FormatKey(key) \in DOMAIN store'
          /\ FormatKey(key) \in IndexRecords(zsets')]_vars

\* setdefault of one client and del of the other have both finished, and the
\* index holds the key while the data space does not
C31_Witness ==
  /\ AllIdle
  /\ lastOp[1].op = "setdefault"
  /\ lastOp[2].op = "delitem"
  /\ lastOp[2].key = lastOp[1].key
  /\ FormatKey(lastOp[1].key) \in IndexRecords(zsets)
  /\ FormatKey(lastOp[1].key) \notin DOMAIN store

\* ============================================ ordered variant, expired keys
\* what len(d), keys() and popitem() of the ordered variant show of the keys
\* without an entry: len(d) is the number of entries, keys() yields none of
\* them, popitem() does not select one
EntriesOnly ==
  /\ OrdLenResult(zsets) = PyInt(Cardinality(DOMAIN store))
  /\ \A reply \in ZScanReplies(zsets, InsertionOrderKey(namespace)) :
       \A i \in 1..Len(reply) : reply[i] \in DOMAIN store
  /\ \A latest \in {ZRangeLast(zsets, InsertionOrderKey(namespace))} :
       latest # <<>> => latest[1] \in DOMAIN store

\* C32: in the ordered variant with an expiry, a key whose entry the store
\* has dropped is not counted by len(d), not yielded by keys() and not
\* selected by popitem(), which returns a pair of a key that has an entry or
\* raises KeyError
C32_ExpiredKeyGone ==
  /\ EntriesOnly
  /\ lastOp[1].op = "popitem" => lastOp[1].result[1] \in {"pair", "KeyError"}

\* the same as long as no time has passed
C32_BeforeExpiry ==
  now = 0 => C32_ExpiredKeyGone

\* after its only entry expired, popitem() selected the expired key
C32_Witness ==
  /\ now > 0
  /\ store = EmptyStore
  /\ lastOp[1].op = "popitem"
  /\ lastOp[1].result = AttributeError

\* ======================================================= concurrent popitem
\* C33: when two clients call popitem() concurrently on the ordered variant,
\* each call returns the (key, value) pair of an entry that existed, which it
\* removes, or raises KeyError; no call ends with another error or without a
\* value
C33_PopitemRace ==
  [][\A c \in Clients :
       lastOp'[c] # lastOp[c] /\ lastOp'[c].op = "popitem" =>
         \/ lastOp'[c].result[1] = "KeyError"
         \/ /\ lastOp'[c].result[1] = "pair"
            /\ FormatKey(lastOp'[c].result[2]) \in DOMAIN store
            /\ FormatKey(lastOp'[c].result[2]) \notin DOMAIN store'
            /\ lastOp'[c].result[3] =
                 Transform(store[FormatKey(lastOp'[c].result[2])].val)]_vars

\* the part about returned pairs: a pair is the key and value of an entry
\* that the same step removes, so no entry goes to both callers
C33_NoEntryTwice ==
  [][\A c \in Clients :
       lastOp'[c] # lastOp[c] /\ lastOp'[c].op = "popitem"
       /\ lastOp'[c].result[1] = "pair" =>
         /\ FormatKey(lastOp'[c].result[2]) \in DOMAIN store
         /\ FormatKey(lastOp'[c].result[2]) \notin DOMAIN store'
         /\ lastOp'[c].result[3] =
              Transform(store[FormatKey(lastOp'[c].result[2])].val)]_vars

\* both callers read the same latest key: one got the pair, the other's call
\* failed with AttributeError
C33_Witness ==
  /\ lastOp[1].op = "popitem"
  /\ lastOp[2].op = "popitem"
  /\ lastOp[1].key = lastOp[2].key
  /\ lastOp[1].result[1] = "pair"
  /\ lastOp[2].result = AttributeError

\* ====================================================== popitem terminates
\* a call of popitem is under way
InPopitem == pc[1] \in {"probe", "pop"}

\* C34: when the other clients write and delete only finitely often, every
\* call of popitem() of the unordered dictionary ends, with a pair or with
\* KeyError; a probed key that is gone at the pop leads to a new probe
C34_PopitemTerminates ==
  (<>[][~OtherWrites]_vars) => (InPopitem ~> pc[1] = "idle")

\* a call that ended has returned a pair or raised KeyError
C34_PairOrKeyError ==
  lastOp[1].op = "popitem" => lastOp[1].result[1] \in {"pair", "KeyError"}

\* the probed key was gone at the pop and the call probes again
C34_Witness ==
  /\ pc[1] = "probe"
  /\ pending[1].op = "popitem"
  /\ FormatKey(pending[1].key) \notin DOMAIN store

\* ===================================================== the seconds of expire
\* max(1, whole seconds of e)
NormalizedTTL(e) == IF WholeSeconds(e) <= 1 THEN 1 ELSE WholeSeconds(e)

\* the step is an item assignment or a setdefault of instance 1 to key
WritesAbsent(key) ==
  /\ FormatKey(key) \notin DOMAIN store
  /\ \E value \in Values : Setitem(1, key, value) \/ Setdefault(1, key, value)

\* C35: for every expire value e, an integer or a duration, 0 and durations
\* below one second included, item assignment and setdefault on an absent key
\* both leave the key with TTL max(1, whole seconds of e)
C35_SameTTL ==
  [][\A key \in Keys :
       lastOp'[1].key = key /\ WritesAbsent(key) =>
         /\ FormatKey(key) \in DOMAIN store'
         /\ RedisTtl(store', now', FormatKey(key)) = NormalizedTTL(expire[1])]_vars

\* the same for the values of at least one second
C35_WholeSeconds ==
  [][\A key \in Keys :
       lastOp'[1].key = key /\ WholeSeconds(expire[1]) >= 1
       /\ WritesAbsent(key) =>
         /\ FormatKey(key) \in DOMAIN store'
         /\ RedisTtl(store', now', FormatKey(key)) = NormalizedTTL(expire[1])]_vars

\* setdefault on an absent key gives TTL max(1, whole seconds of e) for
\* every e
C35_SetdefaultTTL ==
  [][\A key \in Keys :
       lastOp'[1].key = key /\ lastOp'[1].op = "setdefault"
       /\ WritesAbsent(key) =>
         RedisTtl(store', now', FormatKey(key)) = NormalizedTTL(expire[1])]_vars

\* with a duration of half a second an item assignment was refused by the
\* server
C35_Witness ==
  /\ expire[1] = PyTimedelta(500)
  /\ lastOp[1].op = "setitem"
  /\ lastOp[1].result = ResponseError

\* ==================================================================== clear
\* the entries written through the instance with namespace ns are in st1 as
\* they are in st
KeepsEntriesOf(ns, st, st1) ==
  \A key \in NsKeys :
    FormatKeyIn(ns, key) \in DOMAIN st =>
      /\ FormatKeyIn(ns, key) \in DOMAIN st1
      /\ st1[FormatKeyIn(ns, key)] = st[FormatKeyIn(ns, key)]

\* C36: after clear() with no concurrent writer the dictionary is empty, and
\* the entries of the other namespace are as before
C36_ClearFrame ==
  [][lastOp'[1].op = "clear" /\ NsClear(1) =>
       /\ ScanKeysIn(store', namespace_of[1], <<>>) = {}
       /\ KeepsEntriesOf(namespace_of[2], store, store')]_vars

\* the same for two namespaces without a colon
C36_ColonFree ==
  [][(/\ lastOp'[1].op = "clear"
      /\ \A c \in Clients : FirstColon(namespace_of[c], 1) = 0
      /\ NsClear(1)) =>
       /\ ScanKeysIn(store', namespace_of[1], <<>>) = {}
       /\ KeepsEntriesOf(namespace_of[2], store, store')]_vars

\* clear() of the unordered variant: outside a scope no entry of the
\* namespace is left, and an empty dictionary stays as it is; inside a scope
\* the store is unchanged
C36_Unordered ==
  [][lastOp'[1].op = "clear" /\ Clear(1) =>
       IF redis[1] = "live"
         THEN /\ OwnKeys(store') = {}
              /\ OwnKeys(store) = {} => store' = store
       ELSE store' = store]_vars

\* clear() of the ordered variant: outside a scope neither an entry nor the
\* index is left when every entry had its index record; inside a scope
\* entries and index are unchanged
C36_Ordered ==
  [][lastOp'[1].op = "clear" /\ OrdClear(1) =>
       IF redis[1] = "live"
         THEN /\ DOMAIN store \subseteq IndexRecords(zsets) => store' = EmptyStore
              /\ zsets' = EmptyStore
       ELSE store' = store /\ zsets' = zsets]_vars

\* the instance with namespace 'n' cleared the dictionary and the entry the
\* instance with namespace 'n:a' had written is gone
C36_Witness ==
  /\ namespace_of[1] = <<"n">>
  /\ namespace_of[2] = <<"n", ":", "a">>
  /\ lastOp[1].op = "clear"
  /\ lastOp[2].op = "setitem"
  /\ store = EmptyStore

\* ================================================= a scope whose body raises
\* the first item of dic passes the validation and the second one fails it
SecondFails(dic) ==
  ValidWrite(dic[1][1], dic[1][2]) /\ ~ValidWrite(dic[2][1], dic[2][2])

\* C37: when the body of a pipeline scope raises, here update() reaching an
\* item that fails validation, the commands queued before the error are
\* flushed at the exit of the outermost scope and the error reaches the
\* caller: the items before the failing one are written
C37_FlushedBeforeError ==
  [][\A dic \in SizeDicts :
       (/\ lastOp'[1].op = "update"
        /\ redis[1] = "live"
        /\ SecondFails(dic)
        /\ Update(1, dic))
       => /\ lastOp'[1].result = ValueError
          /\ FormatKey(dic[1][1]) \in DOMAIN store'
          /\ store'[FormatKey(dic[1][1])].val = FormatValue(dic[1][2])
          /\ FormatKey(dic[2][1]) \in DOMAIN store' =>
               FormatKey(dic[2][1]) \in DOMAIN store
               /\ store'[FormatKey(dic[2][1])] = store[FormatKey(dic[2][1])]]_vars

\* update() raised ValueError at its second item and the first item, which
\* was not there before, is written
C37_Witness ==
  /\ lastOp[1].op = "update"
  /\ lastOp[1].result = ValueError
  /\ ~lastOp[1].queued
  /\ SecondFails(lastOp[1].arg[2])
  /\ FormatKey(lastOp[1].arg[2][1][1]) \notin DOMAIN lastOp[1].old
  /\ FormatKey(lastOp[1].arg[2][1][1]) \in DOMAIN store

\* =============================================================== multi_dict
\* every pair of the returned dictionary holds the value stored under its key
\* at the bulk read
PairsOwnValue(outcome) ==
  \A i \in 1..Len(outcome.result[2]) :
    LET k == FormatKey(outcome.result[2][i][1]) IN
      /\ k \in DOMAIN outcome.old
      /\ outcome.result[2][i][2] = Transform(outcome.old[k].val)

\* C38: multi_dict(prefix) pairs every returned key with the value stored
\* under that key, also when another client deletes a matching key between
\* the key scan and the bulk read
C38_OwnValue ==
  lastOp[1].op = "multi_dict" => PairsOwnValue(lastOp[1])

\* the same when every key of the scan is still there at the bulk read
C38_NoneDeleted ==
  (/\ lastOp[1].op = "multi_dict"
   /\ \A i \in 1..Len(lastOp[1].arg[2]) :
        lastOp[1].arg[2][i] \in DOMAIN lastOp[1].old)
  => PairsOwnValue(lastOp[1])

\* the scan found two keys, the first was deleted before the bulk read, and
\* the returned dictionary maps it to a value
C38_Witness ==
  /\ lastOp[1].op = "multi_dict"
  /\ Len(lastOp[1].arg[2]) = 2
  /\ lastOp[1].arg[2][1] \notin DOMAIN lastOp[1].old
  /\ Len(lastOp[1].result[2]) = 1

\* ========================================================= writes re-score
\* the step is an item assignment or a setdefault of instance 1 to key, which
\* has an entry
WritesExisting(key) ==
  /\ FormatKey(key) \in DOMAIN store
  /\ lastOp'[1].op \in {"setitem", "setdefault"}
  /\ lastOp'[1].key = key
  /\ \E value \in Values :
       OrdSetitem(1, key, value) \/ OrdSetdefault(1, key, value)

\* key is the last one every walk of the index zs yields
LastOfIteration(zs, key) ==
  \A reply \in ZScanReplies(zs, InsertionOrderKey(namespace)) :
    reply # <<>> /\ reply[Len(reply)] = FormatKey(key)

\* key is the one the next popitem() takes
LatestOfIndex(zs, key) ==
  ZRangeLast(zs, InsertionOrderKey(namespace)) = <<FormatKey(key)>>

\* C39: in the ordered variant an item assignment to an existing key, and a
\* setdefault on an existing key, move the key to the end of the iteration
\* order and make it the key the next popitem() returns
C39_WriteRescores ==
  [][\A key \in RescoreKeys :
       WritesExisting(key) =>
         LastOfIteration(zsets', key) /\ LatestOfIndex(zsets', key)]_vars

\* the part about popitem(), for every index
C39_NextPopitem ==
  [][\A key \in RescoreKeys :
       WritesExisting(key) => LatestOfIndex(zsets', key)]_vars

\* the part about the iteration order, for an index that is a listpack
C39_ListpackOrder ==
  [][\A key \in RescoreKeys :
       (/\ WritesExisting(key)
        /\ IsListpack(ZMembers(zsets', InsertionOrderKey(namespace))))
       => LastOfIteration(zsets', key)]_vars

\* setdefault was called on an existing key of an index with a long key, and
\* a walk of the index does not end with that key
C39_Witness ==
  /\ lastOp[1].op = "setdefault"
  /\ FormatKey(lastOp[1].key) \in DOMAIN lastOp[1].old
  /\ LatestOfIndex(zsets, lastOp[1].key)
  /\ ~LastOfIteration(zsets, lastOp[1].key)

\* ========================================================= shared registry
\* the codec a mapping holds for an argument of extends_type
Registered(arg) == IF arg = "None" THEN "method" ELSE arg

\* the step is a call of extends_type on instance c that assigns codec
Registers(c, codec) ==
  /\ lastOp'[c].op = "extends_type"
  /\ ExtendsType(c, Person, codec[1], codec[2])

\* the step is an item assignment of the object on instance c
WritesObject(c) ==
  /\ lastOp'[c].op = "setitem"
  /\ Setitem(c, <<"a">>, PyObject("Person", 7))

\* the step is a read of the key on instance c, which has an entry
ReadsObject(c) ==
  /\ lastOp'[c].op = "getitem"
  /\ FormatKey(<<"a">>) \in DOMAIN store
  /\ Getitem(c, <<"a">>)

\* the text after the name of the type in the entry of the key
EncodedObject(st) ==
  LET val == st[FormatKey(<<"a">>)].val IN
    SubSeq(val, FirstColon(val, 1) + 1, Len(val))

\* C40: the codec registry is shared by all instances: a codec registered or
\* overwritten through extends_type on one instance is in both mappings, it
\* stays there until an extends_type or a removal on any instance, and every
\* instance encodes and decodes the type with the codec the mappings hold
C40_SharedRegistry ==
  [][/\ \A c \in Clients, codec \in SharedCodecs :
          Registers(c, codec) =>
            /\ encoding_registry'["Person"] = Registered(codec[1])
            /\ decoding_registry'["Person"] = Registered(codec[2])
     /\ (\/ encoding_registry' # encoding_registry
         \/ decoding_registry' # decoding_registry)
        => \E c \in Clients : lastOp'[c].op \in {"extends_type", "tearDown"}
     /\ \A c \in Clients :
          (WritesObject(c) /\ "Person" \in DOMAIN encoding_registry) =>
            EncodedObject(store') =
              ApplyEncoder(encoding_registry["Person"], PyObject("Person", 7))
     /\ \A c \in Clients :
          (ReadsObject(c) /\ "Person" \in DOMAIN decoding_registry) =>
            lastOp'[c].result =
              ApplyDecoder(decoding_registry["Person"], "Person",
                           EncodedObject(store))]_vars

\* an object written while the type is registered is read back equal by
\* either instance while the registration is the same
C40_RoundTrip ==
  [][\A c \in Clients :
       (/\ ReadsObject(c)
        /\ "Person" \in DOMAIN encoding_registry
        /\ EncodedObject(store) =
             ApplyEncoder(encoding_registry["Person"], PyObject("Person", 7))
        /\ decoding_registry["Person"] =
             (CASE encoding_registry["Person"] = "method" -> "method"
                [] encoding_registry["Person"] = "encode1" -> "decode1"
                [] encoding_registry["Person"] = "encode2" -> "decode2"))
       => lastOp'[c].result = PyObject("Person", 7)]_vars

\* instance 1 registered the second codec pair last, and instance 2 read the
\* object, written with that encoder, back with that decoder
C40_Witness ==
  /\ lastOp[1].op = "extends_type"
  /\ lastOp[1].arg = <<"codecs", "encode2", "decode2">>
  /\ lastOp[1].result = PyNone
  /\ encoding_registry = [x \in {"Person"} |-> "encode2"]
  /\ FormatKey(<<"a">>) \in DOMAIN store
  /\ store[FormatKey(<<"a">>)].val = FormatValue(PyObject("Person", 7))
  /\ EncodedObject(store) = <<"#", "7">>
  /\ lastOp[2].op = "getitem"
  /\ lastOp[2].result = PyObject("Person", 7)
====
